---- MODULE Spec2Model ----
(***************************************************************************)
(* DistributedKV: a single-node key-value store.  An in-memory skip list   *)
(* (the memtable) is fronted by a write-ahead log of framed, checksummed   *)
(* records; the log is replayed into a fresh skip list when the store is   *)
(* opened.                                                                 *)
(*                                                                         *)
(* Bytes are integers 0..255.  A uint32_t is kept as its four bytes in     *)
(* memory order (little-endian), which is also how memcpy lays it out in   *)
(* a frame.  std::string values are sequences of bytes.  An optional is a  *)
(* sequence of length 0 (nullopt) or 1 (the value).                        *)
(***************************************************************************)
EXTENDS Integers, Sequences, FiniteSets, TLC

(***************************************************************************)
(* Bounds of the model.                                                    *)
(***************************************************************************)
MaxOps == 2        \* put/del calls begun over the whole history
MaxSessions == 3   \* times the store is opened on the data directory
MaxFail == 1       \* I/O failures injected over the whole history
MaxTamper == 1     \* times something other than the store edits wal.log
MaxHeight == 2     \* highest node height drawn for the store's memtable
MaxNodes == 3      \* node identities available to one skip list
MaxCalls == 3      \* put/del calls begun where nothing but calls happens
MaxListOps == 4    \* calls made on a skip list used on its own
MaxAdds == 3       \* Add calls made on one table builder
MaxLateAdds == 1   \* of these, Add calls made after Finish
MaxTableFail == 1  \* writes of the table builder that fail

Keys == {5, -12}
Values == {<<>>, <<118>>}

Min(a, b) == IF a < b THEN a ELSE b

(***************************************************************************)
(* wal_record.h: crc32                                                     *)
(***************************************************************************)
RECURSIVE XorByte(_, _)
XorByte(a, b) ==
    IF a = 0 THEN b
    ELSE IF b = 0 THEN a
    ELSE ((a + b) % 2) + 2 * XorByte(a \div 2, b \div 2)

\* XorByte of every pair of 4-bit values, worked out once
RECURSIVE XorRow(_, _)
XorRow(a, b) == IF b > 15 THEN <<>> ELSE <<XorByte(a, b)>> \o XorRow(a, b + 1)

RECURSIVE XorRows(_)
XorRows(a) == IF a > 15 THEN <<>> ELSE <<XorRow(a, 0)>> \o XorRows(a + 1)

XorTable == XorRows(0)

\* a ^ b on bytes, looked up half a byte at a time
Xor8(a, b) ==
    16 * XorTable[(a \div 16) + 1][(b \div 16) + 1] + XorTable[(a % 16) + 1][(b % 16) + 1]

Xor32(x, y) ==
    <<Xor8(x[1], y[1]), Xor8(x[2], y[2]), Xor8(x[3], y[3]), Xor8(x[4], y[4])>>

\* x >> 1 on a uint32_t
Shr1(x) ==
    <<(x[1] \div 2) + 128 * (x[2] % 2), (x[2] \div 2) + 128 * (x[3] % 2),
      (x[3] \div 2) + 128 * (x[4] % 2), x[4] \div 2>>

\* 0x04C11DB7, the polynomial with its bits in the other order
PolyUnreflected == <<183, 29, 193, 4>>

\* 0xEDB88320
Poly == <<32, 131, 184, 237>>

\* one turn of the inner loop: mask = -(crc & 1); crc = (crc >> 1) ^ (Poly & mask)
CrcBitStep(crc) ==
    IF crc[1] % 2 = 1 THEN Xor32(Shr1(crc), Poly) ELSE Shr1(crc)

RECURSIVE CrcBits(_, _)
CrcBits(crc, j) ==
    IF crc[1] < 0 \/ j = 0 THEN crc ELSE CrcBits(CrcBitStep(crc), j - 1)

\* x >> 8 on a uint32_t
Shr8(x) == <<x[2], x[3], x[4], 0>>

\* what the eight turns of the inner loop make of each byte value alone,
\* worked out once
RECURSIVE CrcByteRow(_, _)
CrcByteRow(lo, hi) ==
    IF lo = hi THEN <<CrcBits(<<lo, 0, 0, 0>>, 8)>>
    ELSE CrcByteRow(lo, (lo + hi) \div 2) \o CrcByteRow((lo + hi) \div 2 + 1, hi)

CrcByteTable == CrcByteRow(0, 255)

\* one turn of the outer loop: crc = crc ^ byte, then the eight turns of the
\* inner loop, which shift crc right by eight bits and xor in what they make
\* of its low byte
CrcByte(crc, byte) ==
    Xor32(Shr8(crc), CrcByteTable[Xor8(crc[1], byte) + 1])

\* the outer loop over data[lo..hi], split in halves to keep the nesting low
RECURSIVE CrcLoop(_, _, _, _)
CrcLoop(crc, data, lo, hi) ==
    IF crc[1] < 0 \/ lo > hi THEN crc
    ELSE IF lo = hi
    THEN CrcByte(crc, data[lo])
    ELSE LET mid == (lo + hi) \div 2
             left == CrcLoop(crc, data, lo, mid)
         IN  IF left[1] < 0 THEN left ELSE CrcLoop(left, data, mid + 1, hi)

crc32(data) ==
    LET c == CrcLoop(<<255, 255, 255, 255>>, data, 1, Len(data))
    IN  <<255 - c[1], 255 - c[2], 255 - c[3], 255 - c[4]>>

(***************************************************************************)
(* wal_record.h: LogType, LogRecord, encode_log_record                     *)
(***************************************************************************)
kPut == 0
kDelete == 1

LogRecord(type, key, value) == [type |-> type, key |-> key, value |-> value]

\* memcpy of a uint32_t length into the frame (lengths here stay below 2^16)
U32Bytes(n) == <<n % 256, (n \div 256) % 256, 0, 0>>

encode_log_record(record) ==
    LET key_len == Len(record.key)
        value_len == Len(record.value)
        body == U32Bytes(key_len) \o U32Bytes(value_len) \o <<record.type>>
                \o record.key \o record.value
    IN  crc32(body) \o body

(***************************************************************************)
(* std::to_string(int) and std::stoi, as kv_store.h uses them for keys     *)
(***************************************************************************)
RECURSIVE Digits(_)
Digits(n) == IF n < 10 THEN <<48 + n>> ELSE Append(Digits(n \div 10), 48 + (n % 10))

\* to_string that loses the sign
to_string_unsigned(k) == IF k < 0 THEN Digits(0 - k) ELSE Digits(k)

to_string(k) == IF k < 0 THEN <<45>> \o Digits(0 - k) ELSE Digits(k)

IsSpace(b) == b \in {9, 10, 11, 12, 13, 32}
IsDigit(b) == b >= 48 /\ b <= 57

RECURSIVE SkipSpace(_, _)
SkipSpace(s, i) == IF i <= Len(s) /\ IsSpace(s[i]) THEN SkipSpace(s, i + 1) ELSE i

\* accumulates the digits from position i; range is the largest magnitude
\* an int can hold for the sign read (2147483647 or 2147483648)
RECURSIVE StoiDigits(_, _, _, _)
StoiDigits(s, i, acc, last) ==
    IF acc < 0 \/ i > Len(s) \/ ~IsDigit(s[i]) THEN acc
    ELSE LET d == s[i] - 48
         IN  IF acc > 214748364 \/ (acc = 214748364 /\ d > last)
             THEN -1
             ELSE StoiDigits(s, i + 1, acc * 10 + d, last)

\* [ok |-> FALSE] stands for the exception std::stoi throws
stoi(s) ==
    LET i == SkipSpace(s, 1)
        neg == i <= Len(s) /\ s[i] = 45
        j == IF i <= Len(s) /\ s[i] \in {43, 45} THEN i + 1 ELSE i
    IN  IF j > Len(s) \/ ~IsDigit(s[j]) THEN [ok |-> FALSE, val |-> 0]
        ELSE LET acc == StoiDigits(s, j, 0, IF neg THEN 8 ELSE 7)
             IN  IF acc < 0 THEN [ok |-> FALSE, val |-> 0]
                 ELSE [ok |-> TRUE, val |-> IF neg THEN 0 - acc ELSE acc]

(***************************************************************************)
(* skiplist.h: Node and SkipList.  A node is identified by its address;    *)
(* addresses are 1..MaxNodes, the sentinel head is HeadId and a null       *)
(* pointer is Null.  sl.node maps the address of every node held by        *)
(* nodes_storage to its fields, sl.storage lists the addresses in          *)
(* nodes_storage order.  forward[i] of the code is forward[i + 1] here.    *)
(***************************************************************************)
Null == -1
HeadId == 0
NodeIds == 1..MaxNodes

RECURSIVE NullVector(_)
NullVector(n) == IF n = 0 THEN <<>> ELSE Append(NullVector(n - 1), Null)

Node(k, v, level) == [key |-> k, value |-> v, forward |-> NullVector(level)]

\* p is kept in percent: the default 0.5f is 50
SkipList(max_lvl, prob) ==
    [max_level |-> max_lvl,
     current_level |-> 1,
     p |-> prob,
     node |-> (HeadId :> Node(0, <<>>, max_lvl)),
     storage |-> <<HeadId>>]

\* a level draw that keeps growing while dist(rng) >= p
random_level_inverted(sl) ==
    {l \in 1..(IF sl.max_level < 1 THEN 1 ELSE sl.max_level) :
        (l > 1 => sl.p < 100) /\ (l < sl.max_level => sl.p > 0)}

\* the heights random_level can return: it starts at 1 and climbs while a
\* sample of [0, 1) is below p and the level is below max_level
random_level(sl) ==
    {l \in 1..(IF sl.max_level < 1 THEN 1 ELSE sl.max_level) :
        (l > 1 => sl.p > 0) /\ (l < sl.max_level => sl.p < 100)}

\* the address operator new hands out: any address not in use
FreshIds(sl) == NodeIds \ DOMAIN sl.node

\* the level walk of insert/search/remove with "<=" for "<"
RECURSIVE AdvanceOrEqual(_, _, _, _)
AdvanceOrEqual(sl, current, i, key) ==
    LET next == sl.node[current].forward[i + 1]
    IN  IF next # Null /\ sl.node[next].key <= key
        THEN AdvanceOrEqual(sl, next, i, key)
        ELSE current

\* while (current->forward[i] && current->forward[i]->key < key)
RECURSIVE Advance(_, _, _, _)
Advance(sl, current, i, key) ==
    LET nx == sl.node[current].forward[i + 1]
    IN  IF nx # Null /\ sl.node[nx].key < key
        THEN Advance(sl, nx, i, key)
        ELSE current

\* the descent for (i = current_level - 1; i >= 0; i--) recording update[i]
RECURSIVE Descend(_, _, _, _, _)
Descend(sl, current, i, key, update) ==
    IF i < 0 THEN [current |-> current, update |-> update]
    ELSE LET c == Advance(sl, current, i, key)
         IN  Descend(sl, c, i - 1, key, [update EXCEPT ![i + 1] = c])

\* for (i = current_level; i < new_level; i++) update[i] = head
RECURSIVE RaiseUpdate(_, _, _)
RaiseUpdate(update, i, new_level) ==
    IF i >= new_level THEN update
    ELSE RaiseUpdate([update EXCEPT ![i + 1] = HeadId], i + 1, new_level)

\* a splice that leaves the node's top level out
RECURSIVE LinkLevelsBelowTop(_, _, _, _, _)
LinkLevelsBelowTop(node, ptr, update, i, new_level) ==
    IF i >= new_level - 1 /\ new_level > 1 THEN node
    ELSE IF i >= new_level THEN node
    ELSE LET pred == update[i + 1]
             n1 == [node EXCEPT ![ptr].forward[i + 1] = node[pred].forward[i + 1]]
             n2 == [n1 EXCEPT ![pred].forward[i + 1] = ptr]
         IN  LinkLevelsBelowTop(n2, ptr, update, i + 1, new_level)

\* for (i = 0; i < new_level; i++) splice ptr after update[i]
RECURSIVE LinkLevels(_, _, _, _, _)
LinkLevels(node, ptr, update, i, new_level) ==
    IF i >= new_level THEN node
    ELSE LET pred == update[i + 1]
             n1 == [node EXCEPT ![ptr].forward[i + 1] = node[pred].forward[i + 1]]
             n2 == [n1 EXCEPT ![pred].forward[i + 1] = ptr]
         IN  LinkLevels(n2, ptr, update, i + 1, new_level)

\* insert that finds the key and leaves its value as it was
insert_keep_value(sl, key, value, new_level, ptr) ==
    LET d == Descend(sl, HeadId, sl.current_level - 1, key, NullVector(sl.max_level))
        current == sl.node[d.current].forward[1]
    IN  IF current # Null /\ sl.node[current].key = key
        THEN sl
        ELSE LET update == IF new_level > sl.current_level
                           THEN RaiseUpdate(d.update, sl.current_level, new_level)
                           ELSE d.update
                 level == IF new_level > sl.current_level THEN new_level
                          ELSE sl.current_level
                 created == sl.node @@ (ptr :> Node(key, value, new_level))
             IN  [sl EXCEPT !.current_level = level,
                            !.node = LinkLevels(created, ptr, update, 0, new_level),
                            !.storage = Append(sl.storage, ptr)]

\* an insert that draws the level and raises current_level before it looks
\* for the key
insert_redraw(sl, key, value, new_level, ptr) ==
    LET d == Descend(sl, HeadId, sl.current_level - 1, key, NullVector(sl.max_level))
        current == sl.node[d.current].forward[1]
        update == IF new_level > sl.current_level
                  THEN RaiseUpdate(d.update, sl.current_level, new_level)
                  ELSE d.update
        level == IF new_level > sl.current_level THEN new_level ELSE sl.current_level
    IN  IF current # Null /\ sl.node[current].key = key
        THEN [sl EXCEPT !.current_level = level, !.node[current].value = value]
        ELSE LET created == sl.node @@ (ptr :> Node(key, value, new_level))
             IN  [sl EXCEPT !.current_level = level,
                            !.node = LinkLevels(created, ptr, update, 0, new_level),
                            !.storage = Append(sl.storage, ptr)]

\* SkipList::insert; new_level is what random_level returns and ptr the
\* address of the node make_unique allocates, both used only for a new key
insert(sl, key, value, new_level, ptr) ==
    LET d == Descend(sl, HeadId, sl.current_level - 1, key, NullVector(sl.max_level))
        current == sl.node[d.current].forward[1]
    IN  IF current # Null /\ sl.node[current].key = key
        THEN [sl EXCEPT !.node[current].value = value]
        ELSE LET update == IF new_level > sl.current_level
                           THEN RaiseUpdate(d.update, sl.current_level, new_level)
                           ELSE d.update
                 level == IF new_level > sl.current_level THEN new_level
                          ELSE sl.current_level
                 created == sl.node @@ (ptr :> Node(key, value, new_level))
             IN  [sl EXCEPT !.current_level = level,
                            !.node = LinkLevels(created, ptr, update, 0, new_level),
                            !.storage = Append(sl.storage, ptr)]

\* a search that tests the node the walk stopped on, not the one after it
search_predecessor(sl, key) ==
    LET d == Descend(sl, HeadId, sl.current_level - 1, key, NullVector(sl.max_level))
        current == d.current
    IN  IF current # Null /\ sl.node[current].key = key
        THEN <<sl.node[current].value>>
        ELSE <<>>

\* a search that walks the top level only and never steps down
search_top_level(sl, key) ==
    LET c == Advance(sl, HeadId, sl.current_level - 1, key)
        current == sl.node[c].forward[sl.current_level]
    IN  IF current # Null /\ sl.node[current].key = key
        THEN <<sl.node[current].value>>
        ELSE <<>>

\* SkipList::search: <<>> is std::nullopt, <<v>> holds v
search(sl, key) ==
    LET d == Descend(sl, HeadId, sl.current_level - 1, key, NullVector(sl.max_level))
        current == sl.node[d.current].forward[1]
    IN  IF current # Null /\ sl.node[current].key = key
        THEN <<sl.node[current].value>>
        ELSE <<>>

\* an unlink that ends the chain at the predecessor
RECURSIVE UnlinkTruncating(_, _, _, _, _)
UnlinkTruncating(node, target, update, i, current_level) ==
    IF i >= current_level THEN node
    ELSE LET pred == update[i + 1]
         IN  IF node[pred].forward[i + 1] = target
             THEN UnlinkTruncating([node EXCEPT ![pred].forward[i + 1] = Null],
                                   target, update, i + 1, current_level)
             ELSE UnlinkTruncating(node, target, update, i + 1, current_level)

\* for (i = 0; i < current_level; i++) if (update[i]->forward[i] == target) ...
RECURSIVE UnlinkLevels(_, _, _, _, _)
UnlinkLevels(node, target, update, i, current_level) ==
    IF i >= current_level THEN node
    ELSE LET pred == update[i + 1]
         IN  IF node[pred].forward[i + 1] = target
             THEN UnlinkLevels([node EXCEPT ![pred].forward[i + 1] =
                                                node[target].forward[i + 1]],
                               target, update, i + 1, current_level)
             ELSE UnlinkLevels(node, target, update, i + 1, current_level)

\* a remove that lowers current_level by one level at most
ShrinkLevelOnce(node, current_level) ==
    IF current_level > 1 /\ node[HeadId].forward[current_level] = Null
    THEN current_level - 1
    ELSE current_level

\* while (current_level > 1 && head->forward[current_level - 1] == nullptr)
RECURSIVE ShrinkLevel(_, _)
ShrinkLevel(node, current_level) ==
    IF current_level > 1 /\ node[HeadId].forward[current_level] = Null
    THEN ShrinkLevel(node, current_level - 1)
    ELSE current_level

\* a remove that unlinks the node and keeps it in nodes_storage
remove_keeping(sl, key) ==
    LET d == Descend(sl, HeadId, sl.current_level - 1, key, NullVector(sl.max_level))
        target == sl.node[d.current].forward[1]
    IN  IF target = Null \/ sl.node[target].key # key
        THEN [ok |-> FALSE, sl |-> sl]
        ELSE LET unlinked == UnlinkLevels(sl.node, target, d.update, 0, sl.current_level)
                 level == ShrinkLevel(unlinked, sl.current_level)
             IN  [ok |-> TRUE,
                  sl |-> [sl EXCEPT !.current_level = level, !.node = unlinked]]

\* SkipList::remove: [ok |-> the bool it returns, sl |-> the list afterwards]
remove(sl, key) ==
    LET d == Descend(sl, HeadId, sl.current_level - 1, key, NullVector(sl.max_level))
        target == sl.node[d.current].forward[1]
    IN  IF target = Null \/ sl.node[target].key # key
        THEN [ok |-> FALSE, sl |-> sl]
        ELSE LET unlinked == UnlinkLevels(sl.node, target, d.update, 0, sl.current_level)
                 level == ShrinkLevel(unlinked, sl.current_level)
             IN  [ok |-> TRUE,
                  sl |-> [sl EXCEPT !.current_level = level,
                                    !.node = [n \in (DOMAIN unlinked) \ {target} |->
                                                  unlinked[n]],
                                    !.storage = SelectSeq(sl.storage,
                                                          LAMBDA n : n # target)]]

(***************************************************************************)
(* kv_store.h: KVStore over the data directory's wal.log.                  *)
(*                                                                         *)
(* State of the program and of the file system:                            *)
(*   pc         where the store is: "closed" (no instance), "replay"       *)
(*              (constructor, inside replay_wal), "idle" (between calls),  *)
(*              "buffered", "flushed", "synced" (inside put/del, after     *)
(*              fwrite, fflush, fsync)                                     *)
(*   wal        the bytes of wal.log as the operating system holds them    *)
(*   syncedLen  how many leading bytes of wal are on stable media          *)
(*   ubuf       the bytes in the FILE's user-space buffer                  *)
(*   memtable   memtable_                                                  *)
(*   rpos       the read offset of replay_wal                              *)
(*   cur        the call in progress: [type, key, value]                   *)
(*   result     what the last call returned or threw                       *)
(* History kept to state the properties:                                   *)
(*   segs, ubufSegs  what the bytes of wal and ubuf are made of, in order: *)
(*              [tag, rec, len] with tag "frame" (a whole frame written by *)
(*              put/del), "torn" (a proper prefix of one), "corrupt",      *)
(*              "foreign", "junk"                                          *)
(*   expect     the map the calls of this instance should have produced    *)
(*   syncedRun, appliedRun  the records fsync'ed / applied by this         *)
(*              instance, in order                                         *)
(*   memBefore  memtable_ when the call in progress began                  *)
(*   viewAtClose  get(k) for every k just before the last close            *)
(*   walAtOpen  the bytes of wal.log when this instance was constructed    *)
(*   syncedAll  every record whose fsync returned 0, over all instances    *)
(*   inflight   the record whose call a crash interrupted before fsync     *)
(*              returned (<<>> if none, else <<rec>>)                      *)
(*   h          counters and flags of the history                          *)
(* One turn of replay_wal's loop over a log known only by its sizes:       *)
(*   turn       [at, key_len, value_len, left, payload_total_len]          *)
(* A skip list used on its own, and a table builder:                       *)
(*   list       the SkipList instance and the history of its calls         *)
(*   table      the SSTableBuilder instance and its output file            *)
(***************************************************************************)
VARIABLES pc, wal, syncedLen, ubuf, memtable, rpos, cur, result,
          segs, ubufSegs, expect, syncedRun, appliedRun, memBefore,
          viewAtClose, walAtOpen, syncedAll, inflight, h, turn, list, table

storeVars == <<pc, wal, syncedLen, ubuf, memtable, rpos, cur, result,
               segs, ubufSegs, expect, syncedRun, appliedRun, memBefore,
               viewAtClose, walAtOpen, syncedAll, inflight, h>>

vars == <<storeVars, turn, list, table>>

\* what a step of the store, and a step of a replay turn, leave alone
asideStore == <<turn, list, table>>
asideLengths == <<storeVars, list, table>>

\* SkipList<int, std::string> memtable_{6}
StoreMaxLevel == 6
MemTable == SkipList(StoreMaxLevel, 50)

\* the record put/del hand to append_wal
PutRecord(key, value) == LogRecord(kPut, to_string(key), value)
DelRecord(key) == LogRecord(kDelete, to_string(key), <<>>)
RecordOf(op) == IF op.type = kPut THEN PutRecord(op.key, op.value) ELSE DelRecord(op.key)

Ops == [type : {kPut}, key : Keys, value : Values]
         \cup [type : {kDelete}, key : Keys, value : {<<>>}]

\* the frame of every call the model makes, encoded once
RECURSIVE FramesOf(_)
FramesOf(S) ==
    IF S = {} THEN <<>>
    ELSE LET op == CHOOSE x \in S : TRUE
         IN  (op :> encode_log_record(RecordOf(op))) @@ FramesOf(S \ {op})

FrameTable == FramesOf(Ops)
Frame(op) == FrameTable[op]

\* KVStore::get for every key of the model
View(sl) == [k \in Keys |-> search(sl, k)]

(***************************************************************************)
(* The map a sequence of records stands for.                               *)
(***************************************************************************)
EmptyMap == [k \in Keys |-> <<>>]

MapApply(m, op) ==
    IF op.type = kPut THEN [m EXCEPT ![op.key] = <<op.value>>]
    ELSE [m EXCEPT ![op.key] = <<>>]

RECURSIVE MapApplyAll(_, _, _)
MapApplyAll(m, ops, i) ==
    IF i > Len(ops) THEN m ELSE MapApplyAll(MapApply(m, ops[i]), ops, i + 1)

ApplyAll(ops) == MapApplyAll(EmptyMap, ops, 1)

(***************************************************************************)
(* Segments: the make-up of a byte sequence.                               *)
(***************************************************************************)
Seg(tag, op, len) == [tag |-> tag, rec |-> op, len |-> len]
NoOp == [type |-> kDelete, key |-> 0, value |-> <<>>]

RECURSIVE SegsLen(_)
SegsLen(ss) == IF ss = <<>> THEN 0 ELSE ss[1].len + SegsLen(Tail(ss))

\* the segments of the first n bytes: a segment cut short becomes a torn
\* frame (or junk, if it was no frame of the store)
RECURSIVE CutSegs(_, _)
CutSegs(ss, n) ==
    IF ss = <<>> \/ n <= 0 THEN <<>>
    ELSE IF ss[1].len <= n THEN <<ss[1]>> \o CutSegs(Tail(ss), n - ss[1].len)
    ELSE <<Seg(IF ss[1].tag \in {"frame", "torn"} THEN "torn" ELSE "junk",
               ss[1].rec, n)>>

\* the records of the leading run of whole frames
RECURSIVE LeadingFrames(_)
LeadingFrames(ss) ==
    IF ss = <<>> \/ ss[1].tag # "frame" THEN <<>>
    ELSE <<ss[1].rec>> \o LeadingFrames(Tail(ss))

\* the offset at which segment i starts
RECURSIVE SegStart(_, _)
SegStart(ss, i) == IF i <= 1 THEN 0 ELSE ss[i - 1].len + SegStart(ss, i - 1)

(***************************************************************************)
(* KVStore::replay_wal: one turn of its while (true) loop                  *)
(***************************************************************************)
\* crc32 of the payloads the store itself writes, computed once; Crc32 is
\* crc32 looked up there when it can be
RECURSIVE ChecksumsOf(_)
ChecksumsOf(S) ==
    IF S = {} THEN <<>>
    ELSE LET op == CHOOSE x \in S : TRUE
             body == SubSeq(Frame(op), 5, Len(Frame(op)))
         IN  (body :> crc32(body)) @@ ChecksumsOf(S \ {op})

ChecksumTable == ChecksumsOf(Ops)
Crc32(data) == IF data \in DOMAIN ChecksumTable THEN ChecksumTable[data] ELSE crc32(data)

\* a uint32_t length read from the file; a length of 2^16 or more exceeds
\* every file of the model, so only that fact is kept
U32Value(b) == IF b[3] # 0 \/ b[4] # 0 THEN 65536 ELSE b[1] + 256 * b[2]

StopReplay == [stop |-> TRUE, type |-> 0, key |-> <<>>, value |-> <<>>, next |-> 0]

\* replay that applies a frame without comparing the checksums
ReadFrameNoCrc(w, pos) ==
    LET remaining == Len(w) - pos
    IN  IF remaining < 13 THEN StopReplay
        ELSE LET klen == SubSeq(w, pos + 5, pos + 8)
                 vlen == SubSeq(w, pos + 9, pos + 12)
                 type_u8 == w[pos + 13]
                 key_len == U32Value(klen)
                 value_len == U32Value(vlen)
             IN  IF key_len > remaining - 13 THEN StopReplay
                 ELSE IF value_len > remaining - 13 - key_len THEN StopReplay
                 ELSE [stop |-> FALSE, type |-> type_u8,
                       key |-> SubSeq(w, pos + 14, pos + 13 + key_len),
                       value |-> SubSeq(w, pos + 14 + key_len,
                                        pos + 13 + key_len + value_len),
                       next |-> pos + 13 + key_len + value_len]

\* replay that takes the payload to start after 12 header bytes
ReadFrameHeader12(w, pos) ==
    LET remaining == Len(w) - pos
    IN  IF remaining < 13 THEN StopReplay
        ELSE LET stored_checksum == SubSeq(w, pos + 1, pos + 4)
                 klen == SubSeq(w, pos + 5, pos + 8)
                 vlen == SubSeq(w, pos + 9, pos + 12)
                 type_u8 == w[pos + 13]
                 key_len == U32Value(klen)
                 value_len == U32Value(vlen)
             IN  IF key_len > remaining - 13 THEN StopReplay
                 ELSE IF value_len > remaining - 13 - key_len THEN StopReplay
                 ELSE LET key == SubSeq(w, pos + 13, pos + 12 + key_len)
                          value == SubSeq(w, pos + 13 + key_len,
                                          pos + 12 + key_len + value_len)
                          calculated_crc ==
                              Crc32(klen \o vlen \o <<type_u8>> \o key \o value)
                      IN  IF stored_checksum # calculated_crc THEN StopReplay
                          ELSE [stop |-> FALSE, type |-> type_u8, key |-> key,
                                value |-> value,
                                next |-> pos + 13 + key_len + value_len]

\* the four header freads, the two payload freads and the checksum test of
\* one turn, reading w from offset pos: stop is TRUE where the code breaks
ReadFrame(w, pos) ==
    LET remaining == Len(w) - pos
    IN  IF remaining < 13 THEN StopReplay
        ELSE LET stored_checksum == SubSeq(w, pos + 1, pos + 4)
                 klen == SubSeq(w, pos + 5, pos + 8)
                 vlen == SubSeq(w, pos + 9, pos + 12)
                 type_u8 == w[pos + 13]
                 key_len == U32Value(klen)
                 value_len == U32Value(vlen)
             IN  IF key_len > remaining - 13 THEN StopReplay
                 ELSE IF value_len > remaining - 13 - key_len THEN StopReplay
                 ELSE LET key == SubSeq(w, pos + 14, pos + 13 + key_len)
                          value == SubSeq(w, pos + 14 + key_len,
                                          pos + 13 + key_len + value_len)
                          calculated_crc ==
                              Crc32(klen \o vlen \o <<type_u8>> \o key \o value)
                      IN  IF stored_checksum # calculated_crc THEN StopReplay
                          ELSE [stop |-> FALSE, type |-> type_u8, key |-> key,
                                value |-> value,
                                next |-> pos + 13 + key_len + value_len]

\* operator new as the model runs it: the lowest address not in use
NewAddress(sl) == CHOOSE n \in FreshIds(sl) : \A m \in FreshIds(sl) : n <= m

\* the heights drawn for the memtable, capped by the model's bound
StoreLevels(sl) == {l \in random_level(sl) : l <= MaxHeight}

\* step 4 of the loop: the try block that applies a verified record
ReplayApply(sl, f, new_level) ==
    LET k == stoi(f.key)
    IN  IF ~k.ok THEN sl
        ELSE IF f.type = kPut THEN insert(sl, k.val, f.value, new_level, NewAddress(sl))
        ELSE IF f.type = kDelete THEN remove(sl, k.val).sl
        ELSE sl

(***************************************************************************)
(* Sizes.  A uint32_t is four little-endian bytes, a size_t eight; sums    *)
(* wrap at the width of their operands.                                    *)
(***************************************************************************)
RECURSIVE AddCarry(_, _, _, _)
AddCarry(a, b, i, carry) ==
    IF i > Len(a) THEN <<>>
    ELSE LET sum == a[i] + b[i] + carry
         IN  <<sum % 256>> \o AddCarry(a, b, i + 1, sum \div 256)

Add(a, b) == AddCarry(a, b, 1, 0)

RECURSIVE SubBorrow(_, _, _, _)
SubBorrow(a, b, i, borrow) ==
    IF i > Len(a) THEN <<>>
    ELSE LET diff == a[i] - b[i] - borrow
         IN  <<(diff + 256) % 256>> \o SubBorrow(a, b, i + 1, IF diff < 0 THEN 1 ELSE 0)

Sub(a, b) == SubBorrow(a, b, 1, 0)

RECURSIVE LessFrom(_, _, _)
LessFrom(a, b, i) ==
    IF i = 0 THEN FALSE
    ELSE IF a[i] # b[i] THEN a[i] < b[i]
    ELSE LessFrom(a, b, i - 1)

Less(a, b) == LessFrom(a, b, Len(a))

\* a uint32_t converted to size_t
SizeT(x) == x \o <<0, 0, 0, 0>>

\* the literal 4 + 4 + 1
HeaderInCrc == <<9, 0, 0, 0>>

\* no turn in progress
NoTurn == [at |-> "none", key_len |-> <<0, 0, 0, 0>>, value_len |-> <<0, 0, 0, 0>>,
           left |-> SizeT(<<0, 0, 0, 0>>), payload_total_len |-> <<0, 0, 0, 0>>]

(***************************************************************************)
(* Initial state: no instance, an empty data directory.                    *)
(***************************************************************************)
NoStore ==
    /\ pc = "closed"
    /\ wal = <<>>
    /\ syncedLen = 0
    /\ ubuf = <<>>
    /\ memtable = MemTable
    /\ rpos = 0
    /\ cur = NoOp
    /\ result = "none"
    /\ segs = <<>>
    /\ ubufSegs = <<>>
    /\ expect = EmptyMap
    /\ syncedRun = <<>>
    /\ appliedRun = <<>>
    /\ memBefore = MemTable
    /\ viewAtClose = EmptyMap
    /\ walAtOpen = <<>>
    /\ syncedAll = <<>>
    /\ inflight = <<>>
    /\ h = [nOps |-> 0, nSessions |-> 0, nFail |-> 0, nTamper |-> 0,
            nCrash |-> 0, fullCrash |-> 0, fresh |-> FALSE, lastEnd |-> "none"]

\* no skip list of its own, no table builder
NoList == [at |-> "none"]
NoTable == [at |-> "none"]

Init == NoStore /\ turn = NoTurn /\ list = NoList /\ table = NoTable

\* fopen(wal_path_, "wb"): the file is emptied
OpenTruncating(w) == <<>>

\* fopen(wal_path_, "ab"): the bytes of the file as the stream finds them
OpenForAppend(w) == w

\* the constructor has returned: what the instance starts from
Opened(sl, w) ==
    /\ pc' = "idle"
    /\ memtable' = sl
    /\ wal' = OpenForAppend(w)
    /\ syncedLen' = Min(syncedLen, Len(wal'))
    /\ expect' = View(sl)
    /\ syncedRun' = <<>>
    /\ appliedRun' = <<>>
    /\ memBefore' = sl
    /\ result' = "none"
    /\ cur' = NoOp
    /\ inflight' = inflight

\* KVStore::KVStore up to the choice between replay_wal and a new log
Open ==
    /\ UNCHANGED asideStore
    /\ pc = "closed"
    /\ h.nSessions < MaxSessions
    /\ h' = [h EXCEPT !.nSessions = @ + 1, !.fresh = TRUE]
    /\ walAtOpen' = wal
    /\ rpos' = 0
    /\ ubuf' = <<>>
    /\ UNCHANGED <<segs, ubufSegs, viewAtClose, syncedAll>>
    /\ IF Len(wal) > 0
       THEN /\ pc' = "replay"
            /\ memtable' = MemTable
            /\ UNCHANGED <<wal, syncedLen, expect, syncedRun, appliedRun, memBefore,
                           result, cur, inflight>>
       ELSE Opened(MemTable, wal)

\* one turn of replay_wal's loop; on break, fclose, then the constructor's fopen
ReplayStep ==
    /\ UNCHANGED asideStore
    /\ pc = "replay"
    /\ LET f == ReadFrame(wal, rpos)
       IN  IF f.stop
           THEN /\ Opened(memtable, wal)
                /\ UNCHANGED rpos
           ELSE /\ \E new_level \in StoreLevels(memtable) :
                       memtable' = ReplayApply(memtable, f, new_level)
                /\ rpos' = f.next
                /\ UNCHANGED <<pc, wal, syncedLen, expect, syncedRun, appliedRun,
                               memBefore, result, cur, inflight>>
    /\ UNCHANGED <<ubuf, segs, ubufSegs, viewAtClose, walAtOpen, syncedAll, h>>

(***************************************************************************)
(* KVStore::put, KVStore::del and append_wal, cut at the three I/O steps.  *)
(***************************************************************************)
\* a del that logs nothing when the key is not in the index
BeginSkippingAbsent(op, budget) ==
    /\ UNCHANGED asideStore
    /\ pc = "idle"
    /\ h.nOps < budget
    /\ pc' = "buffered"
    /\ cur' = op
    /\ memBefore' = memtable
    /\ ubuf' = IF op.type = kDelete /\ search(memtable, op.key) = <<>>
               THEN ubuf ELSE ubuf \o Frame(op)
    /\ ubufSegs' = IF op.type = kDelete /\ search(memtable, op.key) = <<>>
                   THEN ubufSegs ELSE Append(ubufSegs, Seg("frame", op, Len(Frame(op))))
    /\ h' = [h EXCEPT !.nOps = @ + 1, !.fresh = FALSE]
    /\ UNCHANGED <<wal, syncedLen, memtable, rpos, result, segs, expect, syncedRun,
                   appliedRun, viewAtClose, walAtOpen, syncedAll, inflight>>

\* put/del up to and including step 1 of append_wal: fwrite copies the
\* whole frame into the stream's buffer
Begin(op, budget) ==
    /\ UNCHANGED asideStore
    /\ pc = "idle"
    /\ h.nOps < budget
    /\ pc' = "buffered"
    /\ cur' = op
    /\ memBefore' = memtable
    /\ ubuf' = ubuf \o Frame(op)
    /\ ubufSegs' = Append(ubufSegs, Seg("frame", op, Len(Frame(op))))
    /\ h' = [h EXCEPT !.nOps = @ + 1, !.fresh = FALSE]
    /\ UNCHANGED <<wal, syncedLen, memtable, rpos, result, segs, expect, syncedRun,
                   appliedRun, viewAtClose, walAtOpen, syncedAll, inflight>>

Call(op) == Begin(op, MaxOps)

\* step 2: fflush hands the buffer to the operating system
Flush ==
    /\ UNCHANGED asideStore
    /\ pc = "buffered"
    /\ pc' = "flushed"
    /\ wal' = wal \o ubuf
    /\ segs' = segs \o ubufSegs
    /\ ubuf' = <<>>
    /\ ubufSegs' = <<>>
    /\ UNCHANGED <<syncedLen, memtable, rpos, cur, result, expect, syncedRun,
                   appliedRun, memBefore, viewAtClose, walAtOpen, syncedAll,
                   inflight, h>>

\* append_wal without its step 3: nothing forces the bytes to stable media
SyncSkipped ==
    /\ UNCHANGED asideStore
    /\ pc = "flushed"
    /\ pc' = "synced"
    /\ syncedLen' = syncedLen
    /\ syncedRun' = Append(syncedRun, cur)
    /\ syncedAll' = Append(syncedAll, cur)
    /\ UNCHANGED <<wal, ubuf, memtable, rpos, cur, result, segs, ubufSegs, expect,
                   appliedRun, memBefore, viewAtClose, walAtOpen, inflight, h>>

\* step 3: fsync returns 0, every byte of the file is on stable media
Sync ==
    /\ UNCHANGED asideStore
    /\ pc = "flushed"
    /\ pc' = "synced"
    /\ syncedLen' = Len(wal)
    /\ syncedRun' = Append(syncedRun, cur)
    /\ syncedAll' = Append(syncedAll, cur)
    /\ UNCHANGED <<wal, ubuf, memtable, rpos, cur, result, segs, ubufSegs, expect,
                   appliedRun, memBefore, viewAtClose, walAtOpen, inflight, h>>

\* put/del that update memtable_ once fflush has returned, before fsync
ApplyBeforeSync ==
    /\ UNCHANGED asideStore
    /\ pc = "flushed"
    /\ pc' = "idle"
    /\ IF cur.type = kPut
       THEN /\ \E new_level \in StoreLevels(memtable) :
                   memtable' = insert(memtable, cur.key, cur.value, new_level,
                                      NewAddress(memtable))
            /\ result' = "ok"
       ELSE LET r == remove(memtable, cur.key)
            IN  /\ memtable' = r.sl
                /\ result' = IF r.ok THEN "true" ELSE "false"
    /\ appliedRun' = Append(appliedRun, cur)
    /\ expect' = MapApply(expect, cur)
    /\ UNCHANGED <<wal, syncedLen, ubuf, rpos, cur, segs, ubufSegs, syncedRun,
                   memBefore, viewAtClose, walAtOpen, syncedAll, inflight, h>>

\* a del that returns true whenever its record was logged
ApplyReportingLogged ==
    /\ UNCHANGED asideStore
    /\ pc = "synced"
    /\ pc' = "idle"
    /\ IF cur.type = kPut
       THEN /\ \E new_level \in StoreLevels(memtable) :
                   memtable' = insert(memtable, cur.key, cur.value, new_level,
                                      NewAddress(memtable))
            /\ result' = "ok"
       ELSE /\ memtable' = remove(memtable, cur.key).sl
            /\ result' = "true"
    /\ appliedRun' = Append(appliedRun, cur)
    /\ expect' = MapApply(expect, cur)
    /\ UNCHANGED <<wal, syncedLen, ubuf, rpos, cur, segs, ubufSegs, syncedRun,
                   memBefore, viewAtClose, walAtOpen, syncedAll, inflight, h>>

\* append_wal has returned: memtable_.insert / memtable_.remove, and return
Apply ==
    /\ UNCHANGED asideStore
    /\ pc = "synced"
    /\ pc' = "idle"
    /\ IF cur.type = kPut
       THEN /\ \E new_level \in StoreLevels(memtable) :
                   memtable' = insert(memtable, cur.key, cur.value, new_level,
                                      NewAddress(memtable))
            /\ result' = "ok"
       ELSE LET r == remove(memtable, cur.key)
            IN  /\ memtable' = r.sl
                /\ result' = IF r.ok THEN "true" ELSE "false"
    /\ appliedRun' = Append(appliedRun, cur)
    /\ expect' = MapApply(expect, cur)
    /\ UNCHANGED <<wal, syncedLen, ubuf, rpos, cur, segs, ubufSegs, syncedRun,
                   memBefore, viewAtClose, walAtOpen, syncedAll, inflight, h>>

\* a get that stores an empty value under a key it does not find
GetOrCreate(k) ==
    /\ UNCHANGED asideStore
    /\ pc = "idle"
    /\ result' = IF search(memtable, k) = <<>> THEN "nullopt" ELSE "value"
    /\ memtable' = IF search(memtable, k) = <<>>
                   THEN insert(memtable, k, <<>>, 1, NewAddress(memtable))
                   ELSE memtable
    /\ UNCHANGED <<pc, wal, syncedLen, ubuf, rpos, cur, segs, ubufSegs, expect,
                   syncedRun, appliedRun, memBefore, viewAtClose, walAtOpen,
                   syncedAll, inflight, h>>

\* KVStore::get: return memtable_.search(key); result keeps whether the
\* optional holds a value
Get(k) ==
    /\ UNCHANGED asideStore
    /\ pc = "idle"
    /\ result' = IF search(memtable, k) = <<>> THEN "nullopt" ELSE "value"
    /\ UNCHANGED <<pc, wal, syncedLen, ubuf, memtable, rpos, cur, segs, ubufSegs,
                   expect, syncedRun, appliedRun, memBefore, viewAtClose, walAtOpen,
                   syncedAll, inflight, h>>

(***************************************************************************)
(* I/O failures: each step of append_wal throws std::runtime_error.        *)
(***************************************************************************)
\* how many bytes a failing fwrite or write(2) may still have taken
ShortCounts == {0, 5}

\* put/del written apply-then-log: the index is updated before append_wal runs
ThrownAfterApply ==
    /\ UNCHANGED asideStore
    /\ pc' = "idle"
    /\ result' = "error"
    /\ memtable' = IF cur'.type = kPut
                   THEN insert(memtable, cur'.key, cur'.value, 1, NewAddress(memtable))
                   ELSE remove(memtable, cur'.key).sl
    /\ UNCHANGED <<syncedLen, rpos, expect, syncedRun, appliedRun,
                   viewAtClose, walAtOpen, syncedAll, inflight>>

\* the throw of append_wal leaves put/del before memtable_ is touched
Thrown ==
    /\ UNCHANGED asideStore
    /\ pc' = "idle"
    /\ result' = "error"
    /\ memtable' = memtable
    /\ UNCHANGED <<syncedLen, rpos, expect, syncedRun, appliedRun,
                   viewAtClose, walAtOpen, syncedAll, inflight>>

\* fwrite returns fewer than data.size(): n bytes were taken into the buffer
WriteFail(op, n) ==
    /\ pc = "idle"
    /\ h.nOps < MaxOps
    /\ h.nFail < MaxFail
    /\ n < Len(Frame(op))
    /\ cur' = op
    /\ memBefore' = memtable
    /\ ubuf' = ubuf \o SubSeq(Frame(op), 1, n)
    /\ ubufSegs' = IF n = 0 THEN ubufSegs ELSE Append(ubufSegs, Seg("torn", op, n))
    /\ h' = [h EXCEPT !.nOps = @ + 1, !.nFail = @ + 1, !.fresh = FALSE]
    /\ Thrown
    /\ UNCHANGED <<wal, segs>>

\* fflush fails: write(2) took n bytes, the stream drops the rest
FlushFail(n) ==
    /\ pc = "buffered"
    /\ h.nFail < MaxFail
    /\ n < Len(ubuf)
    /\ wal' = wal \o SubSeq(ubuf, 1, n)
    /\ segs' = segs \o CutSegs(ubufSegs, n)
    /\ ubuf' = <<>>
    /\ ubufSegs' = <<>>
    /\ h' = [h EXCEPT !.nFail = @ + 1]
    /\ UNCHANGED <<cur, memBefore>>
    /\ Thrown

\* fsync fails: the frame is in the file, not known to be on stable media
SyncFail ==
    /\ pc = "flushed"
    /\ h.nFail < MaxFail
    /\ h' = [h EXCEPT !.nFail = @ + 1]
    /\ UNCHANGED <<wal, ubuf, cur, segs, ubufSegs, memBefore>>
    /\ Thrown

(***************************************************************************)
(* End of an instance.                                                     *)
(***************************************************************************)
\* KVStore::~KVStore: fclose writes out what the buffer still holds
Close ==
    /\ UNCHANGED asideStore
    /\ pc = "idle"
    /\ pc' = "closed"
    /\ wal' = wal \o ubuf
    /\ segs' = segs \o ubufSegs
    /\ ubuf' = <<>>
    /\ ubufSegs' = <<>>
    /\ viewAtClose' = View(memtable)
    /\ inflight' = <<>>
    /\ h' = [h EXCEPT !.lastEnd = "close"]
    /\ UNCHANGED <<syncedLen, memtable, rpos, cur, result, expect, syncedRun,
                   appliedRun, memBefore, walAtOpen, syncedAll>>

\* where inside a frame a crash may cut the file
TornOffsets == {5, 13, 14}

\* the lengths of wal.log a crash can leave: all of it (the process died,
\* the operating system lived), the part fsync made stable, or a cut inside
\* the frame fflush had just handed over (power was lost during write-back)
CrashCuts ==
    {n \in {Len(wal), syncedLen} \cup
           (IF pc = "flushed"
            THEN {Len(wal) - Len(Frame(cur)) + o : o \in TornOffsets}
            ELSE {}) :
        n >= syncedLen /\ n <= Len(wal)}

\* the process or the machine dies: the buffer and the memtable are gone
Crash(n) ==
    /\ UNCHANGED asideStore
    /\ pc \in {"idle", "buffered", "flushed", "synced"}
    /\ n \in CrashCuts
    /\ pc' = "closed"
    /\ wal' = SubSeq(wal, 1, n)
    /\ segs' = CutSegs(segs, n)
    /\ syncedLen' = n
    /\ ubuf' = <<>>
    /\ ubufSegs' = <<>>
    /\ inflight' = IF pc \in {"buffered", "flushed"} THEN <<cur>> ELSE <<>>
    /\ h' = [h EXCEPT !.nCrash = @ + 1, !.lastEnd = "crash",
                      !.fullCrash = IF pc = "flushed" /\ n = Len(wal)
                                    THEN @ + 1 ELSE @]
    /\ UNCHANGED <<memtable, rpos, cur, result, expect, syncedRun, appliedRun,
                   memBefore, viewAtClose, walAtOpen, syncedAll>>

(***************************************************************************)
(* Edits of wal.log made while no instance is open (the recovery tests of  *)
(* kv_store_test.cpp, and a writer that knows other record kinds).         *)
(***************************************************************************)
Tampered(w, ss) ==
    /\ UNCHANGED asideStore
    /\ pc = "closed"
    /\ h.nTamper < MaxTamper
    /\ wal' = w
    /\ segs' = ss
    /\ syncedLen' = Len(w)
    /\ h' = [h EXCEPT !.nTamper = @ + 1]
    /\ UNCHANGED <<pc, ubuf, memtable, rpos, cur, result, ubufSegs, expect, syncedRun,
                   appliedRun, memBefore, viewAtClose, walAtOpen, syncedAll, inflight>>

\* DetectsExistingWAL: wal << "dummy content"
DummyContent == <<100, 117, 109, 109, 121, 32, 99, 111, 110, 116, 101, 110, 116>>

WriteGarbage ==
    /\ wal = <<>>
    /\ Tampered(DummyContent, <<Seg("junk", NoOp, Len(DummyContent))>>)

\* TruncatedWAL: char trash[5] = {0, 1, 2, 3, 4} appended
Trash == <<0, 1, 2, 3, 4>>

AppendTrash == Tampered(wal \o Trash, Append(segs, Seg("junk", NoOp, Len(Trash))))

\* CorruptedWAL: one byte of the file overwritten with 0xFF; o is the offset
\* inside frame i (10 in the test)
CorruptOffsets == {0, 10, 12, 13}

CorruptByte(i, o) ==
    /\ i \in 1..Len(segs)
    /\ segs[i].tag = "frame"
    /\ o < segs[i].len
    /\ wal[SegStart(segs, i) + o + 1] # 255
    /\ Tampered([wal EXCEPT ![SegStart(segs, i) + o + 1] = 255],
                [segs EXCEPT ![i].tag = "corrupt"])

\* a frame with a correct checksum whose kind byte is neither kPut nor kDelete
ForeignKind == 2
ForeignOp == [type |-> ForeignKind, key |-> 5, value |-> <<118>>]
ForeignFrame == encode_log_record(LogRecord(ForeignKind, to_string(5), <<118>>))

AppendForeign ==
    Tampered(wal \o ForeignFrame, Append(segs, Seg("foreign", ForeignOp, Len(ForeignFrame))))

(***************************************************************************)
(* Specifications.  Spec: the store with crashes.  SpecFail: the store     *)
(* with I/O failures.  SpecTamper: the store with edits of the closed log. *)
(* SpecCalls: the store with put, del and get only.                        *)
(* SpecLengths (further down): replay over logs of 4 GiB and more.         *)
(***************************************************************************)
StoreStep ==
    \/ Open
    \/ ReplayStep
    \/ \E op \in Ops : Call(op)
    \/ Flush
    \/ Sync
    \/ Apply
    \/ Close

Next ==
    \/ StoreStep
    \/ \E n \in 0..Len(wal) : Crash(n)

Spec == Init /\ [][Next]_vars

NextFail ==
    \/ StoreStep
    \/ \E op \in Ops, n \in ShortCounts : WriteFail(op, n)
    \/ \E n \in ShortCounts : FlushFail(n)
    \/ SyncFail

SpecFail == Init /\ [][NextFail]_vars

NextTamper ==
    \/ StoreStep
    \/ WriteGarbage
    \/ AppendTrash
    \/ \E i \in 1..MaxOps, o \in CorruptOffsets : CorruptByte(i, o)
    \/ AppendForeign

SpecTamper == Init /\ [][NextTamper]_vars

\* the store used through its three calls only, over several instances
NextCalls ==
    \/ Open
    \/ ReplayStep
    \/ \E op \in Ops : Begin(op, MaxCalls)
    \/ Flush
    \/ Sync
    \/ Apply
    \/ \E k \in Keys : Get(k)
    \/ Close

SpecCalls == Init /\ [][NextCalls]_vars

(***************************************************************************)
(* replay_wal, one turn of the loop from the point where the 13 header     *)
(* bytes have been read, over a log described by the lengths its header    *)
(* announces and the number of bytes that follow the header.               *)
(***************************************************************************)
\* key_len / value_len found in a header: 0, 1, 0x7FFFFFF7, 0x80000000,
\* 0xFFFFFFF7, 0xFFFFFFFF
HeaderLengths ==
    {<<0, 0, 0, 0>>, <<1, 0, 0, 0>>, <<247, 255, 255, 127>>, <<0, 0, 0, 128>>,
     <<247, 255, 255, 255>>, <<255, 255, 255, 255>>}

\* bytes of the file after the header: 0, 1, 0x80000000, 0xFFFFFFF7,
\* 0x100000000, 0x1FFFFFFFE
BytesAfterHeader ==
    {<<0, 0, 0, 0, 0, 0, 0, 0>>, <<1, 0, 0, 0, 0, 0, 0, 0>>,
     <<0, 0, 0, 128, 0, 0, 0, 0>>, <<247, 255, 255, 255, 0, 0, 0, 0>>,
     <<0, 0, 0, 0, 1, 0, 0, 0>>, <<254, 255, 255, 255, 1, 0, 0, 0>>}

InitLengths ==
    /\ NoStore
    /\ list = NoList
    /\ table = NoTable
    /\ turn \in [at : {"key"}, key_len : HeaderLengths, value_len : HeaderLengths,
                 left : BytesAfterHeader, payload_total_len : {<<0, 0, 0, 0>>}]

\* if (key_len > 0) { key.resize(key_len); if (fread(...) != key_len) break; }
ReadKey ==
    /\ turn.at = "key"
    /\ turn' = IF Less(turn.left, SizeT(turn.key_len))
               THEN [turn EXCEPT !.at = "break"]
               ELSE [turn EXCEPT !.at = "value",
                                 !.left = Sub(turn.left, SizeT(turn.key_len))]
    /\ UNCHANGED asideLengths

\* if (value_len > 0) { value.resize(value_len); if (fread(...) != value_len) break; }
ReadValue ==
    /\ turn.at = "value"
    /\ turn' = IF Less(turn.left, SizeT(turn.value_len))
               THEN [turn EXCEPT !.at = "break"]
               ELSE [turn EXCEPT !.at = "verify",
                                 !.left = Sub(turn.left, SizeT(turn.value_len))]
    /\ UNCHANGED asideLengths

\* uint32_t payload_total_len = 4 + 4 + 1 + key_len + value_len;
\* std::vector<char> verify_buffer(payload_total_len);
AllocateVerifyBuffer ==
    /\ turn.at = "verify"
    /\ turn' = [turn EXCEPT !.at = "copy",
                            !.payload_total_len =
                                Add(Add(HeaderInCrc, turn.key_len), turn.value_len)]
    /\ UNCHANGED asideLengths

\* the bytes the five memcpy calls write, starting at verify_buffer.data()
BytesCopied(t) == Add(Add(SizeT(HeaderInCrc), SizeT(t.key_len)), SizeT(t.value_len))

\* the memcpy calls: writing past the end of verify_buffer is undefined, the
\* process is killed or runs on
FillVerifyBuffer ==
    /\ turn.at = "copy"
    /\ IF Less(SizeT(turn.payload_total_len), BytesCopied(turn))
       THEN \E next \in {"killed", "crc"} : turn' = [turn EXCEPT !.at = next]
       ELSE turn' = [turn EXCEPT !.at = "crc"]
    /\ UNCHANGED asideLengths

\* crc32 over the buffer against stored_checksum: break, or go on to apply
CompareChecksum ==
    /\ turn.at = "crc"
    /\ \E next \in {"break", "apply"} : turn' = [turn EXCEPT !.at = next]
    /\ UNCHANGED asideLengths

NextLengths ==
    \/ ReadKey
    \/ ReadValue
    \/ AllocateVerifyBuffer
    \/ FillVerifyBuffer
    \/ CompareChecksum

SpecLengths == InitLengths /\ [][NextLengths]_vars

(***************************************************************************)
(* The frame codec alone: crc32 on given bytes; encode_log_record on a     *)
(* record and the reading of its frame as replay_wal reads a log; and, for *)
(* records of 4 GiB and more, encode_log_record and one turn of replay     *)
(* over the sizes alone.  turn holds the input and what was made of it.    *)
(***************************************************************************)
\* "", "123456789", "a", "abc", "key", one zero byte, one 0xFF byte
CrcInputs ==
    {<<>>, <<49, 50, 51, 52, 53, 54, 55, 56, 57>>, <<97>>, <<97, 98, 99>>,
     <<107, 101, 121>>, <<0>>, <<255>>}

\* "", "5", "key", "del_key"
CodecKeys == {<<>>, <<53>>, <<107, 101, 121>>, <<100, 101, 108, 95, 107, 101, 121>>}

\* "", "val", one zero byte, 300 bytes 'x'
CodecValues == {<<>>, <<118, 97, 108>>, <<0>>, [i \in 1..300 |-> 120]}

CodecRecords == [type : {kPut, kDelete}, key : CodecKeys, value : CodecValues]

\* key.size() / value.size(): 0, 1, 0xFFFFFFF3, 0xFFFFFFFF, 0x100000000,
\* 0x100000001
RecordSizes ==
    {<<0, 0, 0, 0, 0, 0, 0, 0>>, <<1, 0, 0, 0, 0, 0, 0, 0>>,
     <<243, 255, 255, 255, 0, 0, 0, 0>>, <<255, 255, 255, 255, 0, 0, 0, 0>>,
     <<0, 0, 0, 0, 1, 0, 0, 0>>, <<1, 0, 0, 0, 1, 0, 0, 0>>}

InitCodec ==
    /\ NoStore
    /\ list = NoList
    /\ table = NoTable
    /\ turn \in [at : {"data"}, data : CrcInputs]
                \cup [at : {"record"}, record : CodecRecords]
                \cup [at : {"sizes"}, key_size : RecordSizes, value_size : RecordSizes]

\* crc32(data, length)
Crc32Call ==
    /\ turn.at = "data"
    /\ turn' = [at |-> "crc32", data |-> turn.data, crc |-> crc32(turn.data)]
    /\ UNCHANGED asideLengths

\* encode_log_record(record)
Encode ==
    /\ turn.at = "record"
    /\ turn' = [at |-> "frame", record |-> turn.record,
                frame |-> encode_log_record(turn.record)]
    /\ UNCHANGED asideLengths

\* one turn of replay_wal's loop on a log that holds the frame and no more
Decode ==
    /\ turn.at = "frame"
    /\ turn' = [at |-> "decoded", record |-> turn.record, frame |-> turn.frame,
                out |-> ReadFrame(turn.frame, 0)]
    /\ UNCHANGED asideLengths

\* static_cast<uint32_t>(size)
Uint32(size) == SubSeq(size, 1, 4)

\* the literal 4 + 4 + 4 + 1
FrameHeader == <<13, 0, 0, 0>>

\* uint32_t total_len = 4 + 4 + 4 + 1 + key_len + value_len
TotalLen(key_len, value_len) == Add(Add(FrameHeader, key_len), value_len)

\* the bytes encode_log_record writes from buffer.data() on
BytesEncoded(key_len, value_len) ==
    Add(Add(SizeT(FrameHeader), SizeT(key_len)), SizeT(value_len))

\* encode_log_record on a record whose key and value have the given sizes:
\* writing past the total_len bytes of buffer is undefined, the process is
\* killed ("overrun") or the buffer is returned as it was sized
EncodeLengths ==
    /\ turn.at = "sizes"
    /\ \E outcome \in {"encoded", "overrun"} :
          /\ outcome = "overrun" =>
                 Less(SizeT(TotalLen(Uint32(turn.key_size), Uint32(turn.value_size))),
                      BytesEncoded(Uint32(turn.key_size), Uint32(turn.value_size)))
          /\ turn' = [at |-> outcome,
                      key_size |-> turn.key_size,
                      value_size |-> turn.value_size,
                      key_len |-> Uint32(turn.key_size),
                      value_len |-> Uint32(turn.value_size),
                      total_len |-> TotalLen(Uint32(turn.key_size), Uint32(turn.value_size)),
                      left |-> SizeT(<<0, 0, 0, 0>>),
                      payload_total_len |-> <<0, 0, 0, 0>>]
    /\ UNCHANGED asideLengths

\* the four fread calls of the header, on a log that holds the frame
ReadHeader ==
    /\ turn.at = "encoded"
    /\ turn' = IF Less(SizeT(turn.total_len), SizeT(FrameHeader))
               THEN [turn EXCEPT !.at = "break"]
               ELSE [turn EXCEPT !.at = "key",
                                 !.left = Sub(SizeT(turn.total_len), SizeT(FrameHeader))]
    /\ UNCHANGED asideLengths

NextCodec ==
    \/ Crc32Call
    \/ Encode
    \/ Decode
    \/ EncodeLengths
    \/ ReadHeader
    \/ ReadKey
    \/ ReadValue
    \/ AllocateVerifyBuffer
    \/ FillVerifyBuffer

SpecCodec == InitCodec /\ [][NextCodec]_vars

(***************************************************************************)
(* skiplist.h used on its own: SkipList<int, int> built with any           *)
(* parameters, then insert, search and remove in any order.                *)
(*   list.at    "none", "live" (constructed), "rejected" (the constructor  *)
(*              threw), "killed" / "corrupt" (after undefined behaviour)   *)
(*   list.sl    the instance                                               *)
(*   list.map   what the calls so far make of a map from key to value      *)
(*   list.last  the last call: [op, key, value, ret, before, drew]         *)
(*   list.n     calls made                                                 *)
(***************************************************************************)
ListKeys == {1, 2, 3}
ListValues == {10, 20}
ListLevels == {-1, 0, 1, 2, 3}
ListProbs == {0, 50, 100}

NoCall == [op |-> "none", key |-> 0, value |-> 0, ret |-> <<>>,
           before |-> SkipList(1, 50), drew |-> FALSE]

\* SkipList::SkipList: the head is Node(K(), V(), max_level), whose forward
\* vector cannot be built with a negative size (std::length_error)
Construct(max_lvl, prob) ==
    /\ list.at = "none"
    /\ list' = IF max_lvl < 0
               THEN [at |-> "rejected"]
               ELSE [at |-> "live", sl |-> SkipList(max_lvl, prob),
                     map |-> [k \in ListKeys |-> <<>>], last |-> NoCall, n |-> 0]
    /\ UNCHANGED <<storeVars, turn, table>>

Callable == list.at = "live" /\ list.sl.max_level >= 1 /\ list.n < MaxListOps

\* SkipList::insert(key, value)
ListInsert(key, value) ==
    /\ Callable
    /\ LET sl == list.sl
           found == search(sl, key) # <<>>
       IN  /\ found \/ FreshIds(sl) # {}
           /\ \E new_level \in random_level(sl) :
                 list' = [list EXCEPT
                     !.sl = insert(sl, key, value, new_level,
                                   IF FreshIds(sl) = {} THEN Null ELSE NewAddress(sl)),
                     !.map[key] = <<value>>,
                     !.last = [op |-> "insert", key |-> key, value |-> value,
                               ret |-> <<TRUE>>, before |-> sl, drew |-> ~found],
                     !.n = @ + 1]
    /\ UNCHANGED <<storeVars, turn, table>>

\* SkipList::search(key)
ListSearch(key) ==
    /\ Callable
    /\ list' = [list EXCEPT
                   !.last = [op |-> "search", key |-> key, value |-> 0,
                             ret |-> search(list.sl, key), before |-> list.sl,
                             drew |-> FALSE],
                   !.n = @ + 1]
    /\ UNCHANGED <<storeVars, turn, table>>

\* SkipList::remove(key)
ListRemove(key) ==
    /\ Callable
    /\ LET r == remove(list.sl, key)
       IN  list' = [list EXCEPT
                       !.sl = r.sl,
                       !.map[key] = <<>>,
                       !.last = [op |-> "remove", key |-> key, value |-> 0,
                                 ret |-> <<r.ok>>, before |-> list.sl,
                                 drew |-> FALSE],
                       !.n = @ + 1]
    /\ UNCHANGED <<storeVars, turn, table>>

\* any call on an instance built with max_level = 0: head->forward[0] is read
\* past the end of an empty vector, which is undefined
ListOutOfBounds ==
    /\ list.at = "live"
    /\ list.sl.max_level < 1
    /\ \E outcome \in {"killed", "corrupt"} : list' = [list EXCEPT !.at = outcome]
    /\ UNCHANGED <<storeVars, turn, table>>

NextList ==
    \/ \E max_lvl \in ListLevels, prob \in ListProbs : Construct(max_lvl, prob)
    \/ \E key \in ListKeys, value \in ListValues : ListInsert(key, value)
    \/ \E key \in ListKeys : ListSearch(key)
    \/ \E key \in ListKeys : ListRemove(key)
    \/ ListOutOfBounds

SpecList == Init /\ [][NextList]_vars

(***************************************************************************)
(* sstable.h, sstable_builder.h: one SSTableBuilder and its output file.   *)
(*   table.at     "none", "alive" (constructed), "gone" (destroyed),       *)
(*                "killed" (after undefined behaviour)                     *)
(*   table.file   the bytes written to the output file                     *)
(*   table.file_, offset_, finished_, data_block_buffer_,                  *)
(*   index_block_buffer_, last_key_, current_block_handle_   the members   *)
(*   table.thrown   what the last call threw ("" when it returned)         *)
(*   table.index_at where Finish wrote the index block ([at, bytes]; at is *)
(*                  -1 while none was written)                             *)
(*   table.adds   Add calls made, table.late  those made after Finish      *)
(*   table.fails  writes that failed, table.call  the last call made       *)
(*   table.auto   whether the destructor ran Finish                         *)
(***************************************************************************)
kBlockSize == 4096
kFooterSize == 48

\* Footer::kTableMagicNumber 0xdb4775248b80fb57 as memcpy lays it out
kTableMagicNumber == <<87, 251, 128, 139, 36, 117, 71, 219>>

BlockHandle(offset, size) == [offset |-> offset, size |-> size]

\* AppendUint64: the eight bytes of a uint64_t (values here stay below 2^31)
U64Bytes(n) ==
    <<n % 256, (n \div 256) % 256, (n \div 65536) % 256, (n \div 16777216) % 256,
      0, 0, 0, 0>>

\* a uint64_t read back from eight bytes
U64Value(b) ==
    IF b[5] # 0 \/ b[6] # 0 \/ b[7] # 0 \/ b[8] # 0 \/ b[4] >= 128 THEN -1
    ELSE b[1] + 256 * b[2] + 65536 * b[3] + 16777216 * b[4]

Zeros(n) == [i \in 1..n |-> 0]

\* memcpy(buf + at, bytes, Len(bytes))
Memcpy(buf, at, bytes) ==
    [i \in 1..Len(buf) |-> IF at < i /\ i <= at + Len(bytes) THEN bytes[i - at] ELSE buf[i]]

\* a footer with the magic number put right after the index handle
FooterBytesPacked(index_handle) ==
    Memcpy(Memcpy(Memcpy(Zeros(kFooterSize), 20, U64Bytes(index_handle.offset)),
                  28, U64Bytes(index_handle.size)),
           36, kTableMagicNumber)

\* the 48 bytes WriteFooter assembles
FooterBytes(index_handle) ==
    Memcpy(Memcpy(Memcpy(Zeros(kFooterSize), 20, U64Bytes(index_handle.offset)),
                  28, U64Bytes(index_handle.size)),
           40, kTableMagicNumber)

\* SSTableBuilder::WriteFooter when fwrite takes count of the 48 bytes; the
\* count is not looked at
WriteFooterTaking(t, index_handle, count) ==
    [t EXCEPT !.file = @ \o SubSeq(FooterBytes(index_handle), 1, count),
              !.offset_ = @ + kFooterSize]

\* SSTableBuilder::WriteFooter
WriteFooter(t, index_handle) == WriteFooterTaking(t, index_handle, kFooterSize)

TableKeys == {<<97>>, <<98>>}
BigValue == [i \in 1..(kBlockSize - 9) |-> 120]
TableValues == {<<>>, BigValue}

\* what one Add appends to data_block_buffer_
Entry(key, value) == U32Bytes(Len(key)) \o U32Bytes(Len(value)) \o key \o value

\* a WriteBlock that records the block's offset after offset_ is advanced
WriteBlockOfLate(t, block) ==
    [t EXCEPT
        !.file = @ \o block,
        !.current_block_handle_ = BlockHandle(t.offset_ + Len(block), Len(block)),
        !.offset_ = @ + Len(block),
        !.index_block_buffer_ = @ \o U32Bytes(Len(t.last_key_)) \o t.last_key_
                                  \o U64Bytes(t.offset_ + Len(block)) \o U64Bytes(Len(block)),
        !.data_block_buffer_ = <<>>]

\* SSTableBuilder::WriteBlock from the fwrite on, the stream taking every
\* byte of block
WriteBlockOf(t, block) ==
    [t EXCEPT
        !.file = @ \o block,
        !.current_block_handle_ = BlockHandle(t.offset_, Len(block)),
        !.offset_ = @ + Len(block),
        !.index_block_buffer_ = @ \o U32Bytes(Len(t.last_key_)) \o t.last_key_
                                  \o U64Bytes(t.offset_) \o U64Bytes(Len(block)),
        !.data_block_buffer_ = <<>>]

\* SSTableBuilder::WriteBlock with a stream that takes every byte
WriteBlock(t) ==
    IF t.data_block_buffer_ = <<>> THEN t
    ELSE WriteBlockOf(t, t.data_block_buffer_ \o crc32(t.data_block_buffer_))

\* Finish: index_handle as it is when WriteFooter is called
IndexHandle(b, index) ==
    IF b.index_block_buffer_ # <<>> THEN BlockHandle(b.offset_, Len(index))
    ELSE BlockHandle(0, 0)

\* index_handle with the offset taken after offset_ is advanced
IndexHandleLate(b, index) ==
    IF b.index_block_buffer_ # <<>> THEN BlockHandle(b.offset_ + Len(index), Len(index))
    ELSE BlockHandle(0, 0)

\* Finish: the index block (index is the buffer with its checksum) handed
\* to fwrite, which takes count bytes of it; the count is not looked at
WriteIndex(b, index, count) ==
    IF b.index_block_buffer_ = <<>> THEN b
    ELSE [b EXCEPT !.index_block_buffer_ = index,
                   !.file = @ \o SubSeq(index, 1, count),
                   !.offset_ = @ + Len(index),
                   !.index_at = [at |-> Len(b.file), bytes |-> SubSeq(index, 1, count)]]

\* Finish after the pending block is written: b is the builder then, fwrite
\* takes index_count bytes of the index block and footer_count of the footer
FinishFrom(b, index, index_count, footer_count) ==
    [WriteFooterTaking(WriteIndex(b, index, index_count), IndexHandle(b, index),
                       footer_count)
        EXCEPT !.finished_ = TRUE, !.file_ = FALSE]

\* the index block of b: its buffer and the checksum appended to it
IndexBlock(b) == b.index_block_buffer_ \o crc32(b.index_block_buffer_)

\* Finish after the pending block is written, every byte being taken
FinishIndexed(b, index) == FinishFrom(b, index, Len(index), kFooterSize)

FinishWritten(b) == FinishIndexed(b, IndexBlock(b))

\* a Finish that takes the index handle's offset after the block is written
FinishIndexedLate(b, index) ==
    [WriteFooter(WriteIndex(b, index, Len(index)), IndexHandleLate(b, index))
        EXCEPT !.finished_ = TRUE, !.file_ = FALSE]

FinishBodyLateHandle(t) == FinishIndexedLate(WriteBlock(t), IndexBlock(WriteBlock(t)))

\* SSTableBuilder::Finish past the finished_ test
FinishBody(t) == FinishWritten(WriteBlock(t))

\* SSTableBuilder::SSTableBuilder
TableConstruct ==
    /\ table.at = "none"
    /\ table' = [at |-> "alive", file |-> <<>>, file_ |-> TRUE, offset_ |-> 0,
                 finished_ |-> FALSE, data_block_buffer_ |-> <<>>,
                 index_block_buffer_ |-> <<>>, last_key_ |-> <<>>,
                 current_block_handle_ |-> BlockHandle(0, 0), thrown |-> "",
                 index_at |-> [at |-> -1, bytes |-> <<>>], adds |-> 0, late |-> 0,
                 fails |-> 0, call |-> "construct", auto |-> FALSE]
    /\ UNCHANGED <<storeVars, turn, list>>

\* an Add that calls WriteBlock when the buffer is larger than kBlockSize
TableAddAbove(key, value) ==
    /\ table.at = "alive"
    /\ table.adds < MaxAdds
    /\ table.finished_ => table.late < MaxLateAdds
    /\ LET a == [table EXCEPT
                    !.data_block_buffer_ = @ \o U32Bytes(Len(key)) \o U32Bytes(Len(value))
                                             \o key \o value,
                    !.last_key_ = key,
                    !.thrown = "",
                    !.call = "Add",
                    !.adds = @ + 1,
                    !.late = IF table.finished_ THEN @ + 1 ELSE @]
       IN  IF Len(a.data_block_buffer_) <= kBlockSize
           THEN table' = a
           ELSE IF table.file_
           THEN table' = WriteBlock(a)
           ELSE \/ table' = [a EXCEPT !.at = "killed"]
                \/ table' = [a EXCEPT !.data_block_buffer_ = @ \o crc32(@),
                                      !.thrown = "Failed to write Data Block"]
    /\ UNCHANGED <<storeVars, turn, list>>

\* SSTableBuilder::Add; once Finish has set file_ to nullptr a block that
\* fills up is handed to fwrite with a null stream, which is undefined: the
\* process dies, or fwrite returns 0 and WriteBlock throws with the checksum
\* already appended to the buffer
TableAdd(key, value) ==
    /\ table.at = "alive"
    /\ table.adds < MaxAdds
    /\ table.finished_ => table.late < MaxLateAdds
    /\ LET a == [table EXCEPT
                    !.data_block_buffer_ = @ \o U32Bytes(Len(key)) \o U32Bytes(Len(value))
                                             \o key \o value,
                    !.last_key_ = key,
                    !.thrown = "",
                    !.call = "Add",
                    !.adds = @ + 1,
                    !.late = IF table.finished_ THEN @ + 1 ELSE @]
       IN  IF Len(a.data_block_buffer_) < kBlockSize
           THEN table' = a
           ELSE IF table.file_
           THEN table' = WriteBlock(a)
           ELSE \/ table' = [a EXCEPT !.at = "killed"]
                \/ table' = [a EXCEPT !.data_block_buffer_ = @ \o crc32(@),
                                      !.thrown = "Failed to write Data Block"]
    /\ UNCHANGED <<storeVars, turn, list>>

\* a Finish without the finished_ test
TableFinishUnguarded ==
    /\ table.at = "alive"
    /\ table' = [FinishBody(table) EXCEPT !.thrown = "", !.call = "Finish"]
    /\ UNCHANGED <<storeVars, turn, list>>

\* SSTableBuilder::Finish
TableFinish ==
    /\ table.at = "alive"
    /\ table' = IF table.finished_
                THEN [table EXCEPT !.thrown = "Finish() called twice", !.call = "Finish"]
                ELSE [FinishBody(table) EXCEPT !.thrown = "", !.call = "Finish"]
    /\ UNCHANGED <<storeVars, turn, list>>

\* a destructor that closes the file and runs no Finish
TableDestroyClosing ==
    /\ table.at = "alive"
    /\ table' = [table EXCEPT !.at = "gone", !.thrown = "", !.call = "destroy",
                              !.auto = table.file_ /\ ~table.finished_]
    /\ UNCHANGED <<storeVars, turn, list>>

\* SSTableBuilder::~SSTableBuilder; when the Finish it runs has returned,
\* file_ is nullptr and the fclose(file_) that follows is undefined: it
\* returns an error or the process dies, the output file being closed already
TableDestroy ==
    /\ table.at = "alive"
    /\ \E outcome \in {"gone", "killed"} :
          /\ outcome = "killed" => table.file_ /\ ~table.finished_
          /\ table' = [IF table.file_ /\ ~table.finished_ THEN FinishBody(table) ELSE table
                           EXCEPT !.at = outcome, !.thrown = "", !.call = "destroy",
                                  !.auto = table.file_ /\ ~table.finished_]
    /\ UNCHANGED <<storeVars, turn, list>>

NextTable ==
    \/ TableConstruct
    \/ \E key \in TableKeys, value \in TableValues : TableAdd(key, value)
    \/ TableFinish
    \/ TableDestroy

SpecTable == Init /\ [][NextTable]_vars

(***************************************************************************)
(* The builder with writes that fail: fwrite returns fewer bytes than it   *)
(* was given.  WriteBlock tests the count and throws; Finish does not test *)
(* it for the index block nor for the footer.                              *)
(***************************************************************************)
\* how many of n bytes a failing fwrite may still have taken
Taken(n) == {c \in {0, n \div 2} : c < n}

CanFail == table.at = "alive" /\ table.file_ /\ ~table.finished_ /\ table.fails < MaxTableFail

\* SSTableBuilder::WriteBlock when fwrite returns count: the checksum is in
\* the buffer, nothing else has changed, std::runtime_error is thrown
WriteBlockFailing(t, count) ==
    [t EXCEPT !.data_block_buffer_ = @ \o crc32(@),
              !.file = @ \o SubSeq(t.data_block_buffer_ \o crc32(t.data_block_buffer_), 1, count),
              !.fails = @ + 1,
              !.thrown = "Failed to write Data Block"]

\* the steps of Finish at which a write can fail, as things stand in t
FailingSteps(t) ==
    {step \in {"block", "index", "footer"} :
        /\ step = "block" => t.data_block_buffer_ # <<>>
        /\ step = "index" => WriteBlock(t).index_block_buffer_ # <<>>}

\* the number of bytes the failing write of that step is given
FailingLen(t, step) ==
    IF step = "block" THEN Len(t.data_block_buffer_) + 4
    ELSE IF step = "index" THEN Len(WriteBlock(t).index_block_buffer_) + 4
    ELSE kFooterSize

\* Finish after the pending block is written, the write of the index block
\* or of the footer returning count
FinishIndexedFailing(b, index, step, count) ==
    [FinishFrom(b, index, IF step = "index" THEN count ELSE Len(index),
                IF step = "footer" THEN count ELSE kFooterSize)
        EXCEPT !.fails = @ + 1, !.thrown = ""]

FinishWrittenFailing(b, step, count) == FinishIndexedFailing(b, IndexBlock(b), step, count)

\* SSTableBuilder::Finish past the finished_ test, with the write of one
\* step returning count
FinishFailing(t, step, count) ==
    IF step = "block" THEN WriteBlockFailing(t, count)
    ELSE FinishWrittenFailing(WriteBlock(t), step, count)

\* SSTableBuilder::Add when the block it fills up is not written
TableAddFail(key, value) ==
    /\ CanFail
    /\ table.adds < MaxAdds
    /\ LET a == [table EXCEPT
                    !.data_block_buffer_ = @ \o U32Bytes(Len(key)) \o U32Bytes(Len(value))
                                             \o key \o value,
                    !.last_key_ = key,
                    !.call = "Add",
                    !.adds = @ + 1]
       IN  /\ Len(a.data_block_buffer_) >= kBlockSize
           /\ \E count \in Taken(Len(a.data_block_buffer_) + 4) :
                  table' = WriteBlockFailing(a, count)
    /\ UNCHANGED <<storeVars, turn, list>>

\* SSTableBuilder::Finish when one of its writes fails
TableFinishFail(step) ==
    /\ CanFail
    /\ step \in FailingSteps(table)
    /\ \E count \in Taken(FailingLen(table, step)) :
           table' = [FinishFailing(table, step, count) EXCEPT !.call = "Finish"]
    /\ UNCHANGED <<storeVars, turn, list>>

\* SSTableBuilder::~SSTableBuilder when a write of the Finish it runs fails:
\* what WriteBlock throws is caught and dropped and the file is closed; when
\* Finish returned, fclose is given the nullptr it left in file_
TableDestroyFail(step) ==
    /\ CanFail
    /\ step \in FailingSteps(table)
    /\ \E count \in Taken(FailingLen(table, step)) :
       \E outcome \in {"gone", "killed"} :
           /\ outcome = "killed" => step # "block"
           /\ table' = [FinishFailing(table, step, count)
                            EXCEPT !.at = outcome, !.thrown = "", !.call = "destroy",
                                   !.auto = TRUE]
    /\ UNCHANGED <<storeVars, turn, list>>

NextTableFail ==
    \/ NextTable
    \/ \E key \in TableKeys, value \in TableValues : TableAddFail(key, value)
    \/ \E step \in {"block", "index", "footer"} : TableFinishFail(step)
    \/ \E step \in {"block", "index", "footer"} : TableDestroyFail(step)

SpecTableFail == Init /\ [][NextTableFail]_vars

(***************************************************************************)
(* Properties.                                                             *)
(***************************************************************************)
IsPrefix(a, b) == Len(a) <= Len(b) /\ SubSeq(b, 1, Len(a)) = a
EndsWith(a, b) == Len(b) <= Len(a) /\ SubSeq(a, Len(a) - Len(b) + 1, Len(a)) = b

Running == pc \in {"idle", "buffered", "flushed", "synced"}

\* the constructor has returned and no call has been made yet
JustOpened == pc = "idle" /\ h.fresh

\* the bytes of segment i of wal.log
SegBytes(i) == SubSeq(wal, SegStart(segs, i) + 1, SegStart(segs, i) + segs[i].len)

\* segs describes wal: the lengths add up, a "frame" is the frame of its
\* record and a "torn" one a proper prefix of it
SegsDescribeWal ==
    /\ SegsLen(segs) = Len(wal)
    /\ \A i \in 1..Len(segs) :
          /\ segs[i].tag = "frame" => SegBytes(i) = Frame(segs[i].rec)
          /\ segs[i].tag = "torn" =>
                /\ segs[i].len < Len(Frame(segs[i].rec))
                /\ SegBytes(i) = SubSeq(Frame(segs[i].rec), 1, segs[i].len)

\* the index of the first segment that is no whole frame (0 if there is none)
FirstBroken ==
    IF \E i \in 1..Len(segs) : segs[i].tag # "frame"
    THEN CHOOSE i \in 1..Len(segs) :
            /\ segs[i].tag # "frame"
            /\ \A j \in 1..(i - 1) : segs[j].tag = "frame"
    ELSE 0

\* C1: between calls, get(k) is what the successful put/del calls of this
\* instance, applied in call order to the map the instance started from,
\* give for every key k; on a fresh directory that map is empty.
C1_GetFollowsCalls ==
    pc = "idle" =>
        /\ View(memtable) = expect
        /\ (walAtOpen = <<>> => View(memtable) = ApplyAll(appliedRun))

C1_Witness ==
    /\ pc = "idle"
    /\ Len(appliedRun) = 2
    /\ appliedRun[1].type = kPut /\ appliedRun[2].type = kPut
    /\ appliedRun[1].key = appliedRun[2].key
    /\ appliedRun[1].value # appliedRun[2].value
    /\ search(memtable, appliedRun[2].key) = <<appliedRun[2].value>>

\* C2: the records applied to the index by put/del are a prefix of the
\* records fsync has acknowledged, the index is untouched while a call is
\* still logging, and the last acknowledged frame lies within the bytes
\* that are on stable media.
C2_LogThenApply ==
    Running =>
        /\ IsPrefix(appliedRun, syncedRun)
        /\ Len(syncedRun) = Len(appliedRun) + (IF pc = "synced" THEN 1 ELSE 0)
        /\ (pc # "idle" => memtable = memBefore)
        /\ syncedLen <= Len(wal)
        /\ (syncedRun # <<>> =>
               EndsWith(SubSeq(wal, 1, syncedLen), Frame(syncedRun[Len(syncedRun)])))

C2_Witness ==
    /\ pc = "idle"
    /\ Len(appliedRun) = 2
    /\ appliedRun = syncedRun
    /\ memtable # memBefore
    /\ syncedLen = Len(wal)

\* C3: when a step of append_wal fails, the call reports an error and the
\* index is exactly as it was when the call began.
C3_FailStop ==
    (pc = "idle" /\ result = "error") =>
        /\ memtable = memBefore
        /\ View(memtable) = expect

C3_Witness ==
    /\ pc = "idle"
    /\ result = "error"
    /\ cur.type = kPut
    /\ Len(appliedRun) = 1
    /\ segs # <<>>
    /\ segs[Len(segs)] = Seg("frame", cur, Len(Frame(cur)))
    /\ syncedLen < Len(wal)
    /\ search(memtable, cur.key) # <<cur.value>>

\* C4: after sessions of successful calls from a fresh directory, each
\* closed cleanly, a reopened store returns for every key what it returned
\* just before the close.
CleanHistory == h.nCrash = 0 /\ h.nFail = 0 /\ h.nTamper = 0

C4_CloseReopen ==
    (JustOpened /\ CleanHistory /\ h.nSessions >= 2) =>
        /\ View(memtable) = viewAtClose
        /\ View(memtable) = ApplyAll(syncedAll)

C4_Witness ==
    /\ JustOpened /\ CleanHistory /\ h.nSessions = 2
    /\ Len(syncedAll) = 2
    /\ syncedAll[1].type = kPut /\ syncedAll[1].key = -12
    /\ syncedAll[2].type = kDelete /\ syncedAll[2].key = 5
    /\ search(memtable, -12) = <<syncedAll[1].value>>

\* C5 as claimed: after a crash, the reopened index holds exactly the records
\* whose fsync had returned success.
C5_ExactlySynced ==
    (JustOpened /\ h.lastEnd = "crash") => View(memtable) = ApplyAll(syncedAll)

\* C5, amended: after the first crash of a history of successful calls, the
\* reopened index holds every record whose fsync had returned success, in
\* order, followed by the record in flight at the crash exactly when all the
\* bytes of its frame had reached the file (its fsync had not returned).
FirstCrash == h.nCrash = 1 /\ h.nFail = 0 /\ h.nTamper = 0

C5_SyncedPlusInflight ==
    (JustOpened /\ h.lastEnd = "crash" /\ FirstCrash) =>
        View(memtable) =
            ApplyAll(syncedAll \o (IF h.fullCrash > 0 THEN inflight ELSE <<>>))

C5_Witness ==
    /\ JustOpened /\ h.lastEnd = "crash" /\ FirstCrash
    /\ Len(syncedAll) = 1
    /\ h.fullCrash = 1
    /\ inflight # <<>>
    /\ View(memtable) # ApplyAll(syncedAll)

\* C6: over sessions of successful calls that end in a clean close or in a
\* crash leaving a torn tail, the index after a reopen is the result of
\* applying every record whose fsync returned success in any session.
C6_SyncedNeverLost ==
    (JustOpened /\ h.nFail = 0 /\ h.nTamper = 0 /\ h.fullCrash = 0) =>
        View(memtable) = ApplyAll(syncedAll)

\* C7: a log of whole frames followed by a proper prefix of a frame reopens
\* to the state of the whole frames.
TornTailLog ==
    /\ SegsDescribeWal
    /\ segs # <<>>
    /\ segs[Len(segs)].tag = "torn"
    /\ \A i \in 1..(Len(segs) - 1) : segs[i].tag = "frame"

C7_TornTailTolerated ==
    (JustOpened /\ TornTailLog) =>
        /\ View(memtable) = ApplyAll(LeadingFrames(segs))
        /\ wal = walAtOpen

C7_Witness ==
    /\ JustOpened /\ TornTailLog
    /\ Len(segs) = 2
    /\ segs[2].len >= 13
    /\ segs[1].rec.type = kPut
    /\ search(memtable, segs[1].rec.key) = <<segs[1].rec.value>>

\* C8: replay stops at the first whole frame whose checksum does not match:
\* the frames before it are applied, it and the frames after it are not.
CorruptFrameAt(i) ==
    /\ i >= 1
    /\ segs[i].tag = "corrupt"
    /\ SegsLen(segs) = Len(wal)
    /\ \A j \in 1..(i - 1) : SegBytes(j) = Frame(segs[j].rec)
    /\ LET b == SegBytes(i)
       IN  /\ 13 + U32Value(SubSeq(b, 5, 8)) + U32Value(SubSeq(b, 9, 12)) = Len(b)
           /\ SubSeq(b, 1, 4) # Crc32(SubSeq(b, 5, Len(b)))

C8_StopAtCorruptFrame ==
    (JustOpened /\ CorruptFrameAt(FirstBroken)) =>
        /\ View(memtable) = ApplyAll(LeadingFrames(segs))
        /\ rpos = SegStart(segs, FirstBroken)

C8_Witness ==
    /\ JustOpened /\ CorruptFrameAt(FirstBroken)
    /\ FirstBroken = 1
    /\ Len(segs) = 2
    /\ segs[2].tag = "frame"
    /\ segs[2].rec.type = kPut
    /\ View(memtable) = EmptyMap

\* C9: replay stops at a frame whose kind byte is neither 0 nor 1 although
\* its checksum verifies; neither it nor a later frame is applied.
ForeignFrameAt(i) ==
    /\ i >= 1
    /\ segs[i].tag = "foreign"
    /\ SegsDescribeWal
    /\ SegBytes(i) = ForeignFrame

C9_StopAtBadKind ==
    (JustOpened /\ ForeignFrameAt(FirstBroken)) =>
        /\ View(memtable) = ApplyAll(LeadingFrames(segs))
        /\ rpos = SegStart(segs, FirstBroken)

\* for a log spelled out byte by byte: every turn of replay either stops or
\* moves on inside the file; when the constructor returns the file is byte
\* for byte what it was, and from then on the instance only appends to it
ReplayKeepsLog ==
    /\ (pc = "replay" =>
           /\ wal = walAtOpen
           /\ rpos <= Len(wal)
           /\ LET f == ReadFrame(wal, rpos)
              IN  f.stop \/ (f.next > rpos /\ f.next <= Len(wal)))
    /\ (JustOpened => wal = walAtOpen)
    /\ (Running => IsPrefix(walAtOpen, wal))

\* C10: whatever bytes wal.log holds, replay runs to its end without error
\* (no turn of its loop ends with the process killed), leaves the bytes of
\* the file as they were, and later calls only append to them.
C10_ReplayCompletesLogKept ==
    /\ turn.at # "killed"
    /\ ReplayKeepsLog

\* C11: del(k) returns true exactly when k was in the index when the call
\* began; after it get(k) is empty; a del(k) that directly follows a del(k)
\* returns false.
DelReturned == pc = "idle" /\ result \in {"true", "false"}

C11_DelReportsPresence ==
    DelReturned =>
        /\ cur.type = kDelete
        /\ (result = "true") <=> (search(memBefore, cur.key) # <<>>)
        /\ search(memtable, cur.key) = <<>>
        /\ LET n == Len(appliedRun)
           IN  (n >= 2 /\ appliedRun[n - 1] = appliedRun[n]) => result = "false"

C11_Witness ==
    /\ DelReturned
    /\ result = "false"
    /\ Len(appliedRun) = 3
    /\ appliedRun[1].type = kPut
    /\ appliedRun[2] = [type |-> kDelete, key |-> appliedRun[1].key, value |-> <<>>]
    /\ appliedRun[3] = appliedRun[2]

\* C12: a get(k) call writes nothing to the log or the stream's buffer and
\* leaves the index as it was, node for node, whether k is found or not.
GetReturned == pc = "idle" /\ result \in {"nullopt", "value"}

C12_GetIsPureRead ==
    [][(pc = "idle" /\ GetReturned')
          => /\ wal' = wal
             /\ ubuf' = ubuf
             /\ syncedLen' = syncedLen
             /\ memtable' = memtable]_vars

C12_Witness ==
    /\ GetReturned
    /\ result = "nullopt"
    /\ Len(appliedRun) = 1
    /\ appliedRun[1].type = kPut
    /\ search(memtable, appliedRun[1].key) # <<>>

(***************************************************************************)
(* The skip list on its own.                                               *)
(***************************************************************************)
Operable == list.at = "live" /\ list.sl.max_level >= 1

\* the nodes met at level i (counted from 0) from head->forward[i] to nullptr
RECURSIVE ChainFrom(_, _, _, _)
ChainFrom(sl, n, i, fuel) ==
    IF n = Null \/ fuel = 0
    THEN <<>>
    ELSE <<n>> \o ChainFrom(sl, sl.node[n].forward[i + 1], i, fuel - 1)

Chain(sl, i) == ChainFrom(sl, sl.node[HeadId].forward[i + 1], i, MaxNodes + 1)

Ordered(sl) ==
    \A i \in 0..(sl.max_level - 1) :
        LET ch == Chain(sl, i)
        IN  /\ Len(ch) <= MaxNodes
            /\ \A j \in 1..(Len(ch) - 1) : sl.node[ch[j]].key < sl.node[ch[j + 1]].key

\* C13: whatever the parameters and whatever inserts and removes were made,
\* current_level is at least 1 and at every level the chain from the head
\* reaches nullptr through strictly increasing keys.
C13_LevelsOrdered == Operable => list.sl.current_level >= 1 /\ Ordered(list.sl)
C13_Witness == Operable /\ list.sl.max_level = 3 /\ list.last.op = "remove" /\ list.last.ret = <<TRUE>> /\ Len(Chain(list.sl, 1)) = 2 /\ Len(Chain(list.sl, 0)) = 2 /\ list.sl.current_level = 2 /\ list.last.before.current_level = 3

\* C14: search(k) returns the value of the latest insert(k, v) that no
\* remove(k) followed and nothing otherwise, on a fresh list too, and every
\* insert returns true.
C14_RefinesMap ==
    Operable =>
        /\ \A k \in ListKeys : search(list.sl, k) = list.map[k]
        /\ list.last.op = "search" => list.last.ret = list.map[list.last.key]
        /\ list.last.op = "insert" => list.last.ret = <<TRUE>>
C14_Witness == Operable /\ list.n = 4 /\ list.last.op = "insert" /\ list.last.before.storage = <<HeadId>> /\ list.map[list.last.key] = <<20>> /\ Len(list.sl.storage) = 2 /\ list.sl.node[list.sl.storage[2]].value = 20

NodeOf(sl, key) == CHOOSE n \in (DOMAIN sl.node) \ {HeadId} : sl.node[n].key = key

\* C15: no two nodes hold the same key; an insert of a key that is present
\* returns true, draws no level, and changes nothing in the list but the
\* value held in that key's node.
C15_OverwriteInPlace ==
    Operable =>
        /\ \A a, b \in (DOMAIN list.sl.node) \ {HeadId} :
               list.sl.node[a].key = list.sl.node[b].key => a = b
        /\ (list.last.op = "insert" /\ search(list.last.before, list.last.key) # <<>>) =>
               /\ list.last.ret = <<TRUE>>
               /\ ~list.last.drew
               /\ list.sl = [list.last.before EXCEPT
                                !.node[NodeOf(list.last.before, list.last.key)].value =
                                    list.last.value]
C15_Witness == Operable /\ list.last.op = "insert" /\ search(list.last.before, list.last.key) = <<10>> /\ list.last.value = 20 /\ list.sl.p = 50 /\ list.sl.max_level = 3 /\ list.sl.current_level = 2 /\ Len(list.sl.storage) = 3

\* C16: remove(k) returns true exactly when k was present; a remove that
\* returns false leaves the list as it was; after one that returns true k is
\* absent and search of every other key gives what it gave before.
C16_RemoveContract ==
    (Operable /\ list.last.op = "remove") =>
        LET before == list.last.before
            key == list.last.key
        IN  /\ list.last.ret = <<search(before, key) # <<>> >>
            /\ list.last.ret = <<FALSE>> => list.sl = before
            /\ list.last.ret = <<TRUE>> =>
                   /\ search(list.sl, key) = <<>>
                   /\ \A k \in ListKeys \ {key} : search(list.sl, k) = search(before, k)
C16_Witness == Operable /\ list.last.op = "remove" /\ list.last.key = 2 /\ list.last.ret = <<TRUE>> /\ search(list.sl, 1) # <<>> /\ search(list.sl, 3) # <<>> /\ list.sl.max_level = 2 /\ Len(list.last.before.node[NodeOf(list.last.before, 2)].forward) = 2

Heights(sl) == {Len(sl.node[n].forward) : n \in (DOMAIN sl.node) \ {HeadId}}

\* C17: random_level returns a height from 1 to max_level; with p = 1.0
\* every node is max_level high and with p = 0.0 every node is 1 high, and
\* with either p the chains stay ordered and search gives what a map gives.
C17_LevelRange ==
    Operable =>
        LET sl == list.sl
        IN  /\ random_level(sl) # {}
            /\ random_level(sl) \subseteq 1..sl.max_level
            /\ Heights(sl) \subseteq 1..sl.max_level
            /\ sl.p = 100 => random_level(sl) = {sl.max_level} /\ Heights(sl) \subseteq {sl.max_level}
            /\ sl.p = 0 => random_level(sl) = {1} /\ Heights(sl) \subseteq {1}
            /\ sl.p \in {0, 100} =>
                   /\ sl.current_level >= 1
                   /\ Ordered(sl)
                   /\ \A k \in ListKeys : search(sl, k) = list.map[k]
C17_Witness == Operable /\ list.sl.p = 100 /\ list.sl.max_level = 3 /\ Heights(list.sl) = {3} /\ Len(list.sl.storage) = 3 /\ list.last.op = "remove" /\ list.last.ret = <<TRUE>>

\* the height of a node: the length of its forward vector
Height(sl, n) == Len(sl.node[n].forward)

\* the nodes of the list other than the head
Entries(sl) == (DOMAIN sl.node) \ {HeadId}

\* the nodes a walk along level i meets
OnChain(sl, i) == {Chain(sl, i)[j] : j \in 1..Len(Chain(sl, i))}

\* C27: at every level l below its height, the successor of a node (or of
\* the head) is the node of lowest key among those of greater key (any key,
\* for the head) and of height above l, or nullptr when there is none; the
\* chain of level l holds exactly the nodes of height above l, and the chain
\* of level l + 1 is the chain of level l without the nodes of height l + 1.
C27_Successors ==
    Operable =>
        LET sl == list.sl
        IN  /\ \A n \in DOMAIN sl.node : \A l \in 0..(Height(sl, n) - 1) :
                   LET after == {m \in Entries(sl) :
                                    /\ Height(sl, m) > l
                                    /\ n # HeadId => sl.node[m].key > sl.node[n].key}
                       next == sl.node[n].forward[l + 1]
                   IN  IF after = {} THEN next = Null
                       ELSE /\ next \in after
                            /\ \A m \in after : sl.node[next].key <= sl.node[m].key
            /\ \A l \in 0..(sl.max_level - 1) :
                   OnChain(sl, l) = {m \in Entries(sl) : Height(sl, m) > l}
            /\ \A l \in 0..(sl.max_level - 2) :
                   Chain(sl, l + 1) =
                       SelectSeq(Chain(sl, l), LAMBDA m : Height(sl, m) > l + 1)
C27_Witness ==
    /\ Operable /\ list.sl.max_level = 3 /\ list.last.op = "insert" /\ list.last.drew
    /\ Len(Chain(list.sl, 0)) = 3 /\ Len(Chain(list.sl, 1)) = 2 /\ Len(Chain(list.sl, 2)) = 1
    /\ Height(list.sl, Chain(list.sl, 0)[2]) = 1

\* C28: current_level is between 1 and max_level, the head has no node
\* after it at any level from current_level up, and has one at level
\* current_level - 1 when current_level is above 1; once every key is
\* removed current_level is 1 and every link of the head is nullptr.
C28_CurrentLevelExact ==
    Operable =>
        LET sl == list.sl
            head == sl.node[HeadId].forward
        IN  /\ 1 <= sl.current_level /\ sl.current_level <= sl.max_level
            /\ \A l \in sl.current_level..(sl.max_level - 1) : head[l + 1] = Null
            /\ sl.current_level > 1 => head[sl.current_level] # Null
            /\ Entries(sl) = {} =>
                   /\ sl.current_level = 1
                   /\ \A l \in 0..(sl.max_level - 1) : head[l + 1] = Null
C28_Witness ==
    /\ Operable /\ list.last.op = "remove" /\ list.last.ret = <<TRUE>>
    /\ Entries(list.sl) = {} /\ list.sl.current_level = 1
    /\ list.last.before.current_level = 3
    /\ Len(list.last.before.storage) = 2

\* the nodes nodes_storage owns
Owned(sl) == {sl.storage[j] : j \in 1..Len(sl.storage)}

\* C29: nodes_storage holds the head and one node for each key present and
\* nothing else, each node once; every such node is on the chain of level
\* 0, and no link of any node leads to a node that is not owned; after a
\* remove that returned true the node that held the key is owned no more,
\* exists no more, and no link leads to it.
C29_NodeOwnership ==
    Operable =>
        LET sl == list.sl
        IN  /\ Cardinality(Owned(sl)) = Len(sl.storage)
            /\ Owned(sl) = DOMAIN sl.node
            /\ HeadId \in Owned(sl)
            /\ Owned(sl) \ {HeadId} = OnChain(sl, 0)
            /\ {sl.node[n].key : n \in Entries(sl)} = {k \in ListKeys : list.map[k] # <<>>}
            /\ Cardinality(Entries(sl)) = Cardinality({k \in ListKeys : list.map[k] # <<>>})
            /\ \A n \in DOMAIN sl.node : \A l \in 1..Height(sl, n) :
                   sl.node[n].forward[l] \in Owned(sl) \cup {Null}
            /\ (list.last.op = "remove" /\ list.last.ret = <<TRUE>>) =>
                   LET target == NodeOf(list.last.before, list.last.key)
                   IN  /\ target \notin Owned(sl)
                       /\ target \notin DOMAIN sl.node
                       /\ \A n \in DOMAIN sl.node : \A l \in 1..Height(sl, n) :
                              sl.node[n].forward[l] # target
C29_Witness ==
    /\ Operable /\ list.last.op = "remove" /\ list.last.ret = <<TRUE>>
    /\ list.sl.max_level = 3
    /\ Height(list.last.before, NodeOf(list.last.before, list.last.key)) = 3
    /\ Len(list.last.before.storage) = 4 /\ Len(list.sl.storage) = 3
    /\ list.last.key = 2

Operated == list.at \in {"killed", "corrupt"} \/ (list.at = "live" /\ list.n >= 1)

\* C18: a list built with max_level <= 0, or with p not strictly between 0
\* and 1, is refused: no instance with such parameters exists on which a
\* call has been made.
C18_BadParametersRejected ==
    Operated => list.sl.max_level >= 1 /\ 0 < list.sl.p /\ list.sl.p < 100

(***************************************************************************)
(* The table builder.                                                      *)
(***************************************************************************)
FileWritten == table.at # "none" /\ table.finished_

\* the last 48 bytes of the output file
FileFooter == SubSeq(table.file, Len(table.file) - 47, Len(table.file))

\* C19: a finished file is at least 48 bytes long and its last 48 bytes are
\* 20 zero bytes, an 8-byte offset, an 8-byte size, 4 zero bytes and the
\* bytes 57 fb 80 8b 24 75 47 db, whether no, a few or blocks of entries
\* were added.
C19_FooterLayout ==
    FileWritten =>
        /\ Len(table.file) >= 48
        /\ SubSeq(FileFooter, 1, 20) = Zeros(20)
        /\ U64Value(SubSeq(FileFooter, 21, 28)) >= 0
        /\ U64Value(SubSeq(FileFooter, 29, 36)) >= 0
        /\ SubSeq(FileFooter, 37, 40) = Zeros(4)
        /\ SubSeq(FileFooter, 41, 48) = <<87, 251, 128, 139, 36, 117, 71, 219>>
C19_Witness == FileWritten /\ table.adds = 3 /\ table.late = 0 /\ Len(table.file) > 3 * kBlockSize /\ Len(table.index_at.bytes) = 67

\* C20: the offset and size in the footer of a finished file of S bytes
\* satisfy offset + size <= S - 48 and name the bytes Finish wrote as the
\* index block; a builder finished before any Add leaves offset 0, size 0
\* and S = 48.
C20_IndexHandle ==
    FileWritten =>
        LET S == Len(table.file)
            offset == U64Value(SubSeq(FileFooter, 21, 28))
            size == U64Value(SubSeq(FileFooter, 29, 36))
        IN  /\ offset >= 0 /\ size >= 0
            /\ offset + size <= S - 48
            /\ IF table.index_at.at = -1
               THEN offset = 0 /\ size = 0
               ELSE /\ offset = table.index_at.at
                    /\ SubSeq(table.file, offset + 1, offset + size) = table.index_at.bytes
            /\ table.adds = table.late => offset = 0 /\ size = 0 /\ S = 48
C20_Witness == FileWritten /\ table.adds = 3 /\ table.late = 0 /\ table.index_at.at > kBlockSize /\ table.index_at.at < 2 * kBlockSize /\ Len(table.index_at.bytes) = 46 /\ table.at = "gone"

\* C21: finished_ is false when the builder is constructed, becomes true
\* only in a Finish that returns (called directly or by the destructor), is
\* true after every Finish call that returns and never goes back to false;
\* a Finish call on a finished builder throws "Finish() called twice" and
\* leaves finished_, FileSize() and the bytes of the file as they were.
C21_FinishedFlag ==
    [][/\ table.at = "none" /\ table'.at = "alive" => ~table'.finished_
       /\ table.at = "alive" =>
            /\ table.finished_ => table'.finished_
            /\ ~table.finished_ /\ table'.finished_ =>
                   table'.call \in {"Finish", "destroy"} /\ table'.thrown = ""
            /\ ~table.finished_ /\ table' # table /\ table'.call = "Finish"
                   => (table'.finished_ <=> table'.thrown = "")
            /\ table.finished_ /\ table'.call = "Finish" /\ table'.at = "alive" =>
                   /\ table'.thrown = "Finish() called twice"
                   /\ table'.finished_
                   /\ table'.offset_ = table.offset_
                   /\ table'.file = table.file]_vars
C21_Witness ==
    /\ table.at = "alive" /\ table.call = "Finish" /\ table.finished_
    /\ table.thrown = "Finish() called twice"
    /\ table.adds = 2 /\ table.fails = 1 /\ Len(table.file) > kBlockSize

\* the output file is at least 48 bytes long and ends with the magic number
EndsWithFooter(file) ==
    /\ Len(file) >= kFooterSize
    /\ SubSeq(file, Len(file) - 7, Len(file)) = kTableMagicNumber

C23_FileSizeAccurate ==
    table.at # "none" => table.offset_ = Len(table.file)

\* C24: crc32 gives the values of the standard CRC-32 (polynomial
\* 0xEDB88320 reflected, initial value and final xor 0xFFFFFFFF): 0 for the
\* empty input, 0xCBF43926 for "123456789", and 0xE8B7BE43, 0x352441C2,
\* 0x8A90ABA9, 0xD202EF8D, 0xFF000000 for "a", "abc", "key", one zero byte,
\* one 0xFF byte.
C24_Crc32Standard ==
    turn.at = "crc32" =>
        /\ turn.data = <<>> => turn.crc = <<0, 0, 0, 0>>
        /\ turn.data = <<49, 50, 51, 52, 53, 54, 55, 56, 57>> => turn.crc = <<38, 57, 244, 203>>
        /\ turn.data = <<97>> => turn.crc = <<67, 190, 183, 232>>
        /\ turn.data = <<97, 98, 99>> => turn.crc = <<194, 65, 36, 53>>
        /\ turn.data = <<107, 101, 121>> => turn.crc = <<169, 171, 144, 138>>
        /\ turn.data = <<0>> => turn.crc = <<141, 239, 2, 210>>
        /\ turn.data = <<255>> => turn.crc = <<0, 0, 0, 255>>
C24_Witness ==
    /\ turn.at = "crc32"
    /\ turn.data = <<49, 50, 51, 52, 53, 54, 55, 56, 57>>
    /\ turn.crc = <<38, 57, 244, 203>>

\* the frame of a record is laid out as checksum | key_len | value_len |
\* kind | key | value and is 13 + |key| + |value| bytes long
FrameLaidOut(r, f) ==
    /\ Len(f) = 13 + Len(r.key) + Len(r.value)
    /\ SubSeq(f, 1, 4) = crc32(SubSeq(f, 5, Len(f)))
    /\ U32Value(SubSeq(f, 5, 8)) = Len(r.key)
    /\ U32Value(SubSeq(f, 9, 12)) = Len(r.value)
    /\ f[13] = (IF r.type = kPut THEN 0 ELSE 1)
    /\ SubSeq(f, 14, 13 + Len(r.key)) = r.key
    /\ SubSeq(f, 14 + Len(r.key), Len(f)) = r.value
    /\ r.type = kDelete /\ r.value = <<>> => SubSeq(f, 9, 12) = <<0, 0, 0, 0>>

\* C25: for every record encode_log_record returns a frame of exactly
\* 13 + |key| + |value| bytes, laid out as checksum(4) | key_len(4) |
\* value_len(4) | kind(1) | key | value, the checksum being the crc32 of the
\* rest; key_len and value_len are the sizes of the key and of the value.
C25_FrameLayout ==
    /\ turn.at = "frame" => FrameLaidOut(turn.record, turn.frame)
    /\ turn.at # "overrun"
    /\ turn.at = "encoded" =>
          /\ SizeT(turn.key_len) = turn.key_size
          /\ SizeT(turn.value_len) = turn.value_size
          /\ SizeT(turn.total_len) =
                 Add(Add(SizeT(FrameHeader), turn.key_size), turn.value_size)

\* C26: reading the frame of a record as replay reads a log yields a
\* verified record with the kind, key and value of the record encoded and
\* ends exactly at the end of the frame; for a record given by its sizes,
\* the header is read, the key and the value read have the sizes of the
\* record's, and no byte of the frame is left.
C26_RoundTrip ==
    /\ turn.at = "decoded" =>
          /\ ~turn.out.stop
          /\ turn.out.type = turn.record.type
          /\ turn.out.key = turn.record.key
          /\ turn.out.value = turn.record.value
          /\ turn.out.next = Len(turn.frame)
    /\ turn.at \notin {"overrun", "break", "killed"}
    /\ turn.at \in {"verify", "copy", "crc"} =>
          /\ SizeT(turn.key_len) = turn.key_size
          /\ SizeT(turn.value_len) = turn.value_size
          /\ turn.left = SizeT(<<0, 0, 0, 0>>)

\* C30: an Add that returns has written a data block exactly when the
\* entry bytes pending with its entry are kBlockSize or more; the block is
\* the pending bytes and a checksum, and the buffer is empty afterwards;
\* otherwise the entry is only appended, so after an Add returns fewer than
\* kBlockSize bytes are pending.  A Finish (called or run by the destructor)
\* whose writes succeed writes the pending bytes as a data block before the
\* index block and writes no data block when nothing is pending.
C30_FlushThreshold ==
    [][table.at = "alive" /\ table' # table /\ table'.fails = table.fails
         /\ table'.at # "killed" /\ table'.thrown = ""
       => LET pending == table.data_block_buffer_
              grown == Len(table'.file) - Len(table.file)
          IN  /\ table'.call = "Add" =>
                    /\ Len(table'.data_block_buffer_) < kBlockSize
                    /\ IF grown = 0
                       THEN /\ Len(table'.data_block_buffer_) > Len(pending)
                            /\ SubSeq(table'.data_block_buffer_, 1, Len(pending)) = pending
                       ELSE /\ grown - 4 >= kBlockSize
                            /\ grown - 4 > Len(pending)
                            /\ SubSeq(table'.file, Len(table.file) + 1,
                                      Len(table.file) + Len(pending)) = pending
                            /\ table'.data_block_buffer_ = <<>>
                            /\ table'.current_block_handle_.size = grown
              /\ (table'.call \in {"Finish", "destroy"} /\ ~table.finished_
                     /\ table'.finished_) =>
                    /\ table'.data_block_buffer_ = <<>>
                    /\ SubSeq(table'.file, Len(table.file) + 1,
                              Len(table.file) + Len(pending)) = pending
                    /\ IF pending = <<>>
                       THEN table'.index_at.at \in {-1, Len(table.file)}
                       ELSE table'.index_at.at = Len(table.file) + Len(pending) + 4]_vars
C30_Witness ==
    /\ table.at = "alive" /\ table.call = "Add" /\ table.thrown = "" /\ table.fails = 0
    /\ table.adds = 2 /\ ~table.finished_
    /\ Len(table.file) = kBlockSize + 4
    /\ table.current_block_handle_.size = kBlockSize + 4
    /\ Len(table.data_block_buffer_) = 9

(***************************************************************************)
(* The file read back: the index block by its entries (key_len, key,       *)
(* offset, size) and a data block by its entries (key_len, value_len, key, *)
(* value).  Each entry read carries the position at which it ends.         *)
(***************************************************************************)
RECURSIVE IndexEntries(_, _)
IndexEntries(buf, at) ==
    IF at + 4 > Len(buf) THEN <<>>
    ELSE IF at + 4 + U32Value(SubSeq(buf, at + 1, at + 4)) + 16 > Len(buf) THEN <<>>
    ELSE <<[key |-> SubSeq(buf, at + 5, at + 4 + U32Value(SubSeq(buf, at + 1, at + 4))),
            offset |-> U64Value(SubSeq(buf, at + 5 + U32Value(SubSeq(buf, at + 1, at + 4)),
                                       at + 12 + U32Value(SubSeq(buf, at + 1, at + 4)))),
            size |-> U64Value(SubSeq(buf, at + 13 + U32Value(SubSeq(buf, at + 1, at + 4)),
                                     at + 20 + U32Value(SubSeq(buf, at + 1, at + 4)))),
            next |-> at + 20 + U32Value(SubSeq(buf, at + 1, at + 4))]>>
         \o IndexEntries(buf, at + 20 + U32Value(SubSeq(buf, at + 1, at + 4)))

RECURSIVE BlockEntries(_, _)
BlockEntries(buf, at) ==
    IF at + 8 > Len(buf) THEN <<>>
    ELSE IF at + 8 + U32Value(SubSeq(buf, at + 1, at + 4))
               + U32Value(SubSeq(buf, at + 5, at + 8)) > Len(buf) THEN <<>>
    ELSE <<[key |-> SubSeq(buf, at + 9, at + 8 + U32Value(SubSeq(buf, at + 1, at + 4))),
            next |-> at + 8 + U32Value(SubSeq(buf, at + 1, at + 4))
                        + U32Value(SubSeq(buf, at + 5, at + 8))]>>
         \o BlockEntries(buf, at + 8 + U32Value(SubSeq(buf, at + 1, at + 4))
                                  + U32Value(SubSeq(buf, at + 5, at + 8)))

\* the entries read end exactly where buf ends
ReadWhole(entries, buf) ==
    IF entries = <<>> THEN buf = <<>> ELSE entries[Len(entries)].next = Len(buf)

\* the sum of the sizes of the first n index entries
RECURSIVE SizesBefore(_, _)
SizesBefore(es, n) == IF n = 0 THEN 0 ELSE SizesBefore(es, n - 1) + es[n].size

\* a < b as std::string compares
RECURSIVE StringLess(_, _, _)
StringLess(a, b, i) ==
    IF i > Len(b) THEN FALSE
    ELSE IF i > Len(a) THEN TRUE
    ELSE IF a[i] # b[i] THEN a[i] < b[i]
    ELSE StringLess(a, b, i + 1)

StrictlyIncreasing(keys) ==
    \A i \in 1..(Len(keys) - 1) : StringLess(keys[i].key, keys[i + 1].key, 1)

\* the index block as the builder holds it, without the checksum Finish puts
\* at its end
IndexOf(t) ==
    IF t.finished_ /\ t.index_block_buffer_ # <<>>
    THEN SubSeq(t.index_block_buffer_, 1, Len(t.index_block_buffer_) - 4)
    ELSE t.index_block_buffer_

\* the entry bytes of the data block index entry e names
BlockOf(t, e) == SubSeq(t.file, e.offset + 1, e.offset + e.size - 4)

\* the keys of every data block of the file, in file order
RECURSIVE KeysAdded(_, _, _)
KeysAdded(t, es, i) ==
    IF i > Len(es) THEN <<>>
    ELSE BlockEntries(BlockOf(t, es[i]), 0) \o KeysAdded(t, es, i + 1)

\* the file of t is the data blocks its index entries es name, one after
\* the other from offset 0, and then the index block
IndexDescribes(t, es) ==
    /\ ReadWhole(es, IndexOf(t))
    /\ \A i \in 1..Len(es) :
          /\ es[i].offset = SizesBefore(es, i - 1)
          /\ es[i].size > 4
          /\ es[i].offset + es[i].size <= Len(t.file)
          /\ ReadWhole(BlockEntries(BlockOf(t, es[i]), 0), BlockOf(t, es[i]))
          /\ BlockEntries(BlockOf(t, es[i]), 0) # <<>>
          /\ BlockEntries(BlockOf(t, es[i]), 0)[Len(BlockEntries(BlockOf(t, es[i]), 0))].key
                 = es[i].key
          /\ SubSeq(t.file, es[i].offset + es[i].size - 3, es[i].offset + es[i].size)
                 = crc32(BlockOf(t, es[i]))
    /\ ~t.finished_ => SizesBefore(es, Len(es)) = Len(t.file)
    /\ t.finished_ =>
          /\ SizesBefore(es, Len(es)) + Len(t.index_block_buffer_) + kFooterSize = Len(t.file)
          /\ es # <<>> =>
                /\ t.index_at.at = SizesBefore(es, Len(es))
                /\ SubSeq(t.file, t.index_at.at + 1,
                          t.index_at.at + Len(t.index_block_buffer_)) = t.index_block_buffer_
                /\ SubSeq(t.index_block_buffer_, Len(t.index_block_buffer_) - 3,
                          Len(t.index_block_buffer_)) = crc32(IndexOf(t))
    /\ StrictlyIncreasing(KeysAdded(t, es, 1)) => StrictlyIncreasing(es)

\* a step of the builder adds an index entry exactly when it writes a data
\* block, at the end of the index, the block being at the end of the file
IndexFollows(t, u, es, fs) ==
    /\ Len(fs) \in {Len(es), Len(es) + 1}
    /\ SubSeq(fs, 1, Len(es)) = es
    /\ Len(fs) = Len(es) + 1 <=>
          \/ u.call = "Add" /\ Len(u.file) > Len(t.file)
          \/ u.call \in {"Finish", "destroy"} /\ ~t.finished_ /\ u.finished_
                /\ t.data_block_buffer_ # <<>>
    /\ Len(fs) = Len(es) + 1 =>
          /\ fs[Len(fs)].offset = Len(t.file)
          /\ fs[Len(fs)].key = u.last_key_

\* C31: the index block holds one entry per data block written, in the
\* order of writing; entry i carries the last key added to block i, the sum
\* of the on-disk sizes of the blocks before it as offset (0 for the first)
\* and the block's entry bytes plus its 4-byte checksum as size; the index
\* block starts at the sum of the sizes of all data blocks; when the keys
\* were added in strictly increasing order the index keys are strictly
\* increasing.
C31_IndexEntries ==
    /\ [](table.at # "none" => IndexDescribes(table, IndexEntries(IndexOf(table), 0)))
    /\ [][table.at = "alive" =>
             IndexFollows(table, table', IndexEntries(IndexOf(table), 0),
                          IndexEntries(IndexOf(table'), 0))]_vars
C31_Witness ==
    /\ table.at = "alive" /\ table.finished_ /\ table.adds = 3 /\ table.late = 0
    /\ Len(IndexEntries(IndexOf(table), 0)) = 2
    /\ IndexEntries(IndexOf(table), 0)[1].key = <<97>>
    /\ IndexEntries(IndexOf(table), 0)[2].key = <<98>>
    /\ IndexEntries(IndexOf(table), 0)[2].offset = kBlockSize + 4
    /\ IndexEntries(IndexOf(table), 0)[2].size = 22
    /\ table.index_at.at = kBlockSize + 26

(***************************************************************************)
(* The store over a log that another writer of the same format has added   *)
(* a record to: the frame is encoded as encode_log_record encodes it, its  *)
(* checksum verifies, its kind is kPut or kDelete, and its key bytes are   *)
(* whatever that writer chose.                                             *)
(***************************************************************************)
\* "x", "5x", " 5", "+5", "05", "", "99999999999" and "5"
WrittenKeys ==
    {<<120>>, <<53, 120>>, <<32, 53>>, <<43, 53>>, <<48, 53>>, <<>>,
     <<57, 57, 57, 57, 57, 57, 57, 57, 57, 57, 57>>, <<53>>}

WrittenRecords ==
    {LogRecord(kPut, key, <<119>>) : key \in WrittenKeys}
        \cup {LogRecord(kDelete, key, <<>>) : key \in WrittenKeys}

AppendWritten(record) ==
    Tampered(wal \o encode_log_record(record),
             Append(segs, Seg("foreign", NoOp, Len(encode_log_record(record)))))

NextKeys ==
    \/ StoreStep
    \/ \E record \in WrittenRecords : AppendWritten(record)

SpecKeys == Init /\ [][NextKeys]_vars

\* key is the decimal ASCII put/del write for some int
Encoded(key) == stoi(key).ok /\ to_string(stoi(key).val) = key

\* the map replay should build from the frames of w from pos on, m being
\* the map so far: a verified record is applied under the integer its key
\* bytes encode and skipped alone when they encode none
RECURSIVE ReplayedFrom(_, _, _)
ReplayedFrom(w, pos, m) ==
    IF ReadFrame(w, pos).stop THEN m
    ELSE ReplayedFrom(w, ReadFrame(w, pos).next,
                      IF Encoded(ReadFrame(w, pos).key)
                             /\ ReadFrame(w, pos).type \in {kPut, kDelete}
                      THEN MapApply(m, [type |-> ReadFrame(w, pos).type,
                                        key |-> stoi(ReadFrame(w, pos).key).val,
                                        value |-> ReadFrame(w, pos).value])
                      ELSE m)

\* C32: replay applies a verified record exactly when its key bytes are
\* the decimal ASCII that put/del write for an integer key, under that
\* key; a verified record with other key bytes is skipped alone and the
\* valid records after it are applied.
C32_ReplayParsesKeys ==
    JustOpened => View(memtable) = ReplayedFrom(wal, 0, EmptyMap)

\* C33: while an instance is open the log only grows at its end; a put or
\* del that returns has added to it one complete frame, that of its record,
\* at the fflush of the call, and the log ends with that frame when the call
\* returns; nothing else is added with it unless an earlier call of the
\* instance failed in fwrite, in which case the bytes that call left in the
\* stream, less than a frame, precede it; a del of an absent key returns
\* false and has added a Delete frame with an empty value like any other
\* del.
C33_AppendOnly ==
    [][/\ (Running /\ pc' # "closed") => IsPrefix(wal, wal')
       /\ (pc = "buffered" /\ pc' = "flushed") =>
             /\ EndsWith(wal', Frame(cur))
             /\ h.nFail = 0 => wal' = wal \o Frame(cur)
             /\ Len(wal') - Len(wal) = Len(ubuf)
             /\ ubufSegs[Len(ubufSegs)] = Seg("frame", cur, Len(Frame(cur)))
             /\ \A i \in 1..(Len(ubufSegs) - 1) :
                   /\ ubufSegs[i].tag = "torn"
                   /\ ubufSegs[i].len < Len(Frame(ubufSegs[i].rec))
       /\ (pc \in {"idle", "flushed", "synced"} /\ pc' # "closed") => wal' = wal
       /\ (pc = "synced" /\ pc' = "idle") =>
             /\ EndsWith(wal', Frame(cur))
             /\ Frame(cur) = encode_log_record(
                    LogRecord(cur.type, to_string(cur.key),
                              IF cur.type = kDelete THEN <<>> ELSE cur.value))
             /\ (cur.type = kDelete /\ search(memtable, cur.key) = <<>>) =>
                    /\ result' = "false"
                    /\ wal'[Len(wal') - Len(to_string(cur.key))] = kDelete
                    /\ SubSeq(wal', Len(wal') - Len(to_string(cur.key)) - 4,
                              Len(wal') - Len(to_string(cur.key)) - 1) = <<0, 0, 0, 0>>]_vars
C33_Witness ==
    /\ pc = "idle" /\ result = "false" /\ cur.type = kDelete
    /\ h.nSessions = 2 /\ Len(segs) = 2
    /\ segs[1].tag = "frame" /\ segs[2].tag = "frame"
    /\ segs[2].rec = cur
    /\ wal = Frame(segs[1].rec) \o Frame(cur)

\* the first instance had a call fail with an I/O error and a later call
\* return, and was closed cleanly; the second has just been constructed
FailedThenWentOn ==
    /\ JustOpened /\ h.nSessions = 2
    /\ h.nFail >= 1 /\ h.nCrash = 0 /\ h.nTamper = 0 /\ h.lastEnd = "close"
    /\ syncedAll # <<>> /\ segs # <<>>
    /\ segs[Len(segs)] = Seg("frame", syncedAll[Len(syncedAll)],
                             Len(Frame(syncedAll[Len(syncedAll)])))

\* C34: when a put or del failed with an I/O error, later calls of the
\* instance returned and the instance was closed cleanly, the reopened store
\* returns for every key what the store returned just before the close,
\* which is what the calls that returned make of the empty map: the record
\* of the failed call is not applied and the records after it are.
C34_FailedWriteLeavesNoTrace ==
    FailedThenWentOn =>
        /\ View(memtable) = viewAtClose
        /\ View(memtable) = ApplyAll(syncedAll)

(***************************************************************************)
(* Two SkipList instances built with the same arguments and given the same *)
(* calls; each draws its own node heights.  list.a and list.b are the two  *)
(* instances, list.ret_a and list.ret_b what the last call returned on     *)
(* each ("void" for insert), list.n the number of calls made.              *)
(***************************************************************************)
TwinLevels == {l \in ListLevels : l >= 1}

TwinConstruct(max_lvl, prob) ==
    /\ list.at = "none"
    /\ list' = [at |-> "twins", a |-> SkipList(max_lvl, prob), b |-> SkipList(max_lvl, prob),
                op |-> "none", ret_a |-> <<>>, ret_b |-> <<>>, n |-> 0]
    /\ UNCHANGED <<storeVars, turn, table>>

TwinCallable == list.at = "twins" /\ list.n < MaxListOps

\* insert(key, value) on both; the two calls to random_level are independent
TwinInsert(key, value) ==
    /\ TwinCallable
    /\ search(list.a, key) # <<>> \/ FreshIds(list.a) # {}
    /\ search(list.b, key) # <<>> \/ FreshIds(list.b) # {}
    /\ \E level_a \in random_level(list.a), level_b \in random_level(list.b) :
          list' = [list EXCEPT
              !.a = insert(list.a, key, value, level_a,
                           IF FreshIds(list.a) = {} THEN Null ELSE NewAddress(list.a)),
              !.b = insert(list.b, key, value, level_b,
                           IF FreshIds(list.b) = {} THEN Null ELSE NewAddress(list.b)),
              !.op = "insert", !.ret_a = "void", !.ret_b = "void", !.n = @ + 1]
    /\ UNCHANGED <<storeVars, turn, table>>

\* search(key) on both
TwinSearch(key) ==
    /\ TwinCallable
    /\ list' = [list EXCEPT !.op = "search", !.ret_a = search(list.a, key),
                            !.ret_b = search(list.b, key), !.n = @ + 1]
    /\ UNCHANGED <<storeVars, turn, table>>

\* remove(key) on both
TwinRemove(key) ==
    /\ TwinCallable
    /\ list' = [list EXCEPT !.a = remove(list.a, key).sl, !.b = remove(list.b, key).sl,
                            !.op = "remove", !.ret_a = <<remove(list.a, key).ok>>,
                            !.ret_b = <<remove(list.b, key).ok>>, !.n = @ + 1]
    /\ UNCHANGED <<storeVars, turn, table>>

NextTwins ==
    \/ \E max_lvl \in TwinLevels, prob \in ListProbs : TwinConstruct(max_lvl, prob)
    \/ \E key \in ListKeys, value \in ListValues : TwinInsert(key, value)
    \/ \E key \in ListKeys : TwinSearch(key)
    \/ \E key \in ListKeys : TwinRemove(key)

SpecTwins == Init /\ [][NextTwins]_vars

\* C35: two skip lists with the same max_level that are given the same
\* insert, search and remove calls return the same result for every call,
\* whatever heights each of them draws for its nodes, and a search for any
\* key would return the same on both.
C35_HeightsUnobservable ==
    list.at = "twins" =>
        /\ list.ret_a = list.ret_b
        /\ \A key \in ListKeys : search(list.a, key) = search(list.b, key)
C35_Witness ==
    /\ list.at = "twins" /\ list.n = 4 /\ list.op = "remove" /\ list.ret_a = <<TRUE>>
    /\ list.a.current_level = 1 /\ list.b.current_level = 3
    /\ Len(list.a.storage) = 3 /\ Len(list.b.storage) = 3
    /\ \E key \in ListKeys : search(list.b, key) # <<>>

\* C36: once Finish has returned, an Add call of whatever size returns
\* without handing the closed file to any write: the bytes of the file and
\* FileSize() stay as they are, nothing is thrown and the process lives.
C36_ClosedForGood ==
    [][(table.at = "alive" /\ table.finished_ /\ table' # table /\ table'.call = "Add") =>
           /\ table'.at = "alive"
           /\ table'.thrown = ""
           /\ table'.file = table.file
           /\ table'.offset_ = table.offset_
           /\ ~table'.file_]_vars

\* C37: when the write of a data block fails, in Add or in Finish, the
\* call throws leaving FileSize(), the index buffer and the finished flag
\* as they were and the pending buffer holding the entries to write and
\* nothing else (for Finish, exactly what it held before the call), so that
\* a later attempt writes the same block with one checksum.
C37_FailedBlockWrite ==
    [][(table.at = "alive" /\ table'.at = "alive" /\ table'.fails = table.fails + 1
            /\ table'.thrown = "Failed to write Data Block") =>
           /\ table'.offset_ = table.offset_
           /\ table'.index_block_buffer_ = table.index_block_buffer_
           /\ table'.finished_ = table.finished_
           /\ IsPrefix(table.data_block_buffer_, table'.data_block_buffer_)
           /\ table'.call = "Finish" => table'.data_block_buffer_ = table.data_block_buffer_
           /\ ReadWhole(BlockEntries(table'.data_block_buffer_, 0),
                        table'.data_block_buffer_)]_vars

====
